---------------------------- MODULE Spec2Model ----------------------------
(***************************************************************************)
(* Model of the L4 virtio-net switch: the forwarding decision of           *)
(* Virtio_switch (switch.cc), the VLAN classifier and ingress/egress       *)
(* policy of Virtio_port (port.h), the request view (request.h), the MAC   *)
(* table (mac_table.h) and the two transfer engines (transfer.h): the      *)
(* inline one and the one that keeps unfinished transfers pending.         *)
(*                                                                         *)
(* Two specifications are defined:                                         *)
(*   Spec          the switch: ports come and go, clients transmit frames, *)
(*                 handle_tx_queue forwards them;                          *)
(*   SpecTransfer  the delivery of one request into a destination receive  *)
(*                 ring, both drawn from bounded sets: one call of the     *)
(*                 inline transfer(), or a pending transfer with its       *)
(*                 retries and its timeout.                                *)
(***************************************************************************)
EXTENDS Integers, Sequences, FiniteSets, TLC

VARIABLES
  ports,      \* Virtio_switch::_ports: slot -> port object or NoPort
  max_used,   \* Virtio_switch::_max_used
  monitor,    \* Virtio_switch::_monitor: port object or NoPort
  mac_table,  \* Virtio_switch::_mac_table
  last,       \* what the last handle_tx_queue call did (history)
  tin,        \* SpecTransfer: the arguments of transfer()
  tout,       \* SpecTransfer: what transfer() returned and left behind
  pend,       \* SpecPending: a destination port with its pending transfers
  devs,       \* SpecIrq: the rings and notification state of every port
  irq         \* SpecIrq: the position of the running handle_port_irq call

vars == <<ports, max_used, monitor, mac_table, last, tin, tout, pend, devs, irq>>

-----------------------------------------------------------------------------
(* Bounds of the model *)

MaxPorts == 3      \* Virtio_switch::_max_ports of the modelled switch
TableSize == 2     \* Mac_table<Size> of the modelled switch

(* Program constants *)

VLAN_ID_NATIVE == 65535
VLAN_ID_TRUNK == 65534
HdrSize == 12      \* sizeof(Virtio_net::Hdr)
Addr_length == 6   \* Mac_addr::Addr_length
BloomBits == 32    \* vlan_bloom_hash: 1UL << (vid & 31U)

-----------------------------------------------------------------------------
(* Sequences of bytes *)

Min(a, b) == IF a < b THEN a ELSE b

Take(s, n) == SubSeq(s, 1, Min(n, Len(s)))

Drop(s, n) == SubSeq(s, Min(n, Len(s)) + 1, Len(s))

RECURSIVE Flatten(_)
Flatten(ss) == IF ss = <<>> THEN <<>> ELSE Head(ss) \o Flatten(Tail(ss))

Rep(b, n) == [i \in 1..n |-> b]

\* A byte of client memory the switch has not written.
Unwritten == 0 - 1

-----------------------------------------------------------------------------
(* L4virtio::Svr::Virtqueue as the transfer engine uses it.  A queue is    *)
(*   ready   the queue is set up,                                          *)
(*   chains  the descriptor chains the client made available, in ring      *)
(*           order; a chain is a sequence of descriptors [bad, size],      *)
(*   cur     the available cursor: how many heads have been pulled,        *)
(*   mem     the client memory behind every descriptor,                    *)
(*   used    the finish calls made on the queue, each a sequence of        *)
(*           [head, len] entries.                                          *)

desc_avail(q) == q.cur < Len(q.chains)

\* Virtqueue::next_avail: the next head and the queue with the cursor moved.
next_avail(q) ==
  IF desc_avail(q)
    THEN [head |-> q.cur + 1, q |-> [q EXCEPT !.cur = q.cur + 1]]
    ELSE [head |-> 0, q |-> q]

\* Virtqueue::rewind_avail: put head and every head pulled after it back.
rewind_avail(q, head) == [q EXCEPT !.cur = head - 1]

\* Virtqueue::finish(head, dev, len) and finish(begin, end, dev).
finish(q, entries) == [q EXCEPT !.used = Append(q.used, entries)]

\* memcpy into the client memory of descriptor d of chain c at offset off.
WriteMem(mem, c, d, off, bytes) ==
  [mem EXCEPT ![c][d] =
     [i \in 1..Len(mem[c][d]) |->
        IF i > off /\ i <= off + Len(bytes) THEN bytes[i - off] ELSE mem[c][d][i]]]

\* What the receiver reads for one finish call: of every chain the first len
\* bytes, in descriptor order.
ReceiverBytes(q, entries) ==
  Flatten([i \in 1..Len(entries) |->
             Take(Flatten(q.mem[entries[i].head]), entries[i].len)])

-----------------------------------------------------------------------------
(* Virtio_vlan_mangle (vlan.h) *)

mangle_none == [tci |-> 0, mac_remaining |-> 0, tag_remaining |-> 0]

mangle_add(tci) == [tci |-> tci, mac_remaining |-> 2 * Addr_length, tag_remaining |-> 4]

mangle_remove == [tci |-> 65535, mac_remaining |-> 2 * Addr_length, tag_remaining |-> 0 - 4]

\* The 802.1Q tag Insert(tci) splices in: TPID 0x8100, then the TCI.
TagBytes(tci) == <<129, 0, tci \div 256, tci % 256>>

\* Virtio_vlan_mangle::rewrite_hdr: leaves the virtio-net header as it is.
rewrite_hdr(mangle, hdr) == hdr

\* The frame a receiver is to see for a mangle: as sent, with the tag spliced
\* in behind the two MAC addresses, or with the four bytes behind them cut.
MangleBytes(frame, mangle) ==
  IF mangle.tci = 0 THEN frame
  ELSE IF mangle.tag_remaining > 0
    THEN Take(frame, 2 * Addr_length) \o TagBytes(mangle.tci) \o Drop(frame, 2 * Addr_length)
    ELSE Take(frame, 2 * Addr_length) \o Drop(frame, 2 * Addr_length + 4)

-----------------------------------------------------------------------------
(* Virtio_net_transfer::transfer, inline variant (transfer.h).             *)
(* The loop state t:                                                       *)
(*   src, srcq        the current source buffer (bytes left) and the       *)
(*                    source descriptors src_req_proc has not loaded,      *)
(*   dst              the current destination buffer [chain, desc, off,    *)
(*                    left]; dst_head the chain it belongs to (0: none),   *)
(*   dst_header       the chain holding the header (0: not written),       *)
(*   total, num_merged, consumed, mangle, q   as in the source,            *)
(*   hdr_chains       the chains a header was copied into (history),       *)
(*   depleted         next_avail found the ring empty (history).            *)

\* Data_buffer::copy_to(&dst, max) from the source buffer.
CopyTo(t, max) ==
  LET n == Min(Min(Len(t.src), t.dst.left), max)
  IN [n |-> n,
      t |-> [t EXCEPT !.q.mem = WriteMem(t.q.mem, t.dst.chain, t.dst.desc, t.dst.off,
                                         Take(t.src, n)),
                      !.src = Drop(t.src, n),
                      !.dst.off = t.dst.off + n,
                      !.dst.left = t.dst.left - n]]

\* copy_to from the four tag bytes still to insert.
CopyTag(t) ==
  LET m   == t.mangle
      tag == Drop(TagBytes(m.tci), 4 - m.tag_remaining)
      n   == Min(Len(tag), t.dst.left)
  IN [n |-> n,
      t |-> [t EXCEPT !.q.mem = WriteMem(t.q.mem, t.dst.chain, t.dst.desc, t.dst.off,
                                         Take(tag, n)),
                      !.dst.off = t.dst.off + n,
                      !.dst.left = t.dst.left - n,
                      !.mangle.tag_remaining = m.tag_remaining - n]]

\* Virtio_vlan_mangle::copy_pkt(dst, src): bytes written and the new state.
copy_pkt(t) ==
  LET m == t.mangle
  IN IF m.tci = 0 THEN CopyTo(t, Len(t.src))
     ELSE IF m.mac_remaining > 0 THEN
       LET r == CopyTo(t, m.mac_remaining)
       IN [n |-> r.n,
           t |-> [r.t EXCEPT !.mangle.mac_remaining = m.mac_remaining - r.n]]
     ELSE IF m.tag_remaining > 0 THEN CopyTag(t)
     ELSE IF m.tag_remaining < 0 THEN
       LET skipped == Min(Len(t.src), 0 - m.tag_remaining)
       IN CopyTo([t EXCEPT !.src = Drop(t.src, skipped),
                           !.mangle.tag_remaining = m.tag_remaining + skipped],
                 Len(t.src))
     ELSE CopyTo(t, Len(t.src))

\* What transfer() leaves behind when it returns or throws.
TransferResult(res, t) ==
  [result |-> res, q |-> t.q, dst_error |-> (res = "Exception"),
   num_merged |-> t.num_merged, nconsumed |-> Len(t.consumed),
   hdr_chains |-> t.hdr_chains, depleted |-> t.depleted]

\* A source advance that throws without the rewind: a fault the source
\* descriptor property has to detect.
SrcAdvanceNoRewind(t) ==
  IF t.src # <<>> THEN [kind |-> "ok", t |-> t]
  ELSE IF t.srcq = <<>> THEN [kind |-> "break", t |-> t]
  ELSE IF Head(t.srcq).bad THEN [kind |-> "throw", t |-> t]
  ELSE [kind |-> "ok",
        t |-> [t EXCEPT !.src = Head(t.srcq).data, !.srcq = Tail(t.srcq)]]

\* Lines 92-108: load the next source buffer when the current one is done.
SrcAdvance(t) ==
  IF t.src # <<>> THEN [kind |-> "ok", t |-> t]
  ELSE IF t.srcq = <<>> THEN [kind |-> "break", t |-> t]
  ELSE IF Head(t.srcq).bad THEN
    [kind |-> "throw",
     t |-> IF t.consumed # <<>>
             THEN [t EXCEPT !.q = rewind_avail(t.q, t.consumed[1].head)]
             ELSE IF t.dst_head # 0
               THEN [t EXCEPT !.q = rewind_avail(t.q, t.dst_head)]
               ELSE t]
  ELSE [kind |-> "ok",
        t |-> [t EXCEPT !.src = Head(t.srcq).data, !.srcq = Tail(t.srcq)]]

\* WriteHeader with a header of zeroes in place of the source header: a
\* fault the header pass-through property has to detect.
WriteHeaderZeroed(t, header) ==
  [t EXCEPT !.dst_header = t.dst.chain,
            !.total = HdrSize,
            !.q.mem = WriteMem(t.q.mem, t.dst.chain, t.dst.desc, 0, Rep(0, HdrSize)),
            !.dst.off = HdrSize,
            !.dst.left = t.dst.left - HdrSize,
            !.hdr_chains = Append(t.hdr_chains, t.dst.chain)]

\* Lines 146-199: copy the header on the first destination chain only.
WriteHeader(t, header) ==
  [t EXCEPT !.dst_header = t.dst.chain,
            !.total = HdrSize,
            !.q.mem = WriteMem(t.q.mem, t.dst.chain, t.dst.desc, 0,
                               rewrite_hdr(t.mangle, header)),
            !.dst.off = HdrSize,
            !.dst.left = t.dst.left - HdrSize,
            !.hdr_chains = Append(t.hdr_chains, t.dst.chain)]

\* Depleted without the rewind: a fault the abort property has to detect.
DepletedNoRewind(t) == t

\* Lines 121-129: the destination queue is depleted.
Depleted(t) ==
  IF t.consumed # <<>>
    THEN [t EXCEPT !.q = rewind_avail(t.q, t.consumed[1].head)]
    ELSE t

\* Lines 114-201: start a destination chain when there is none.
AcquireDst(t, header) ==
  IF t.dst_head # 0 THEN [kind |-> "ok", t |-> t]
  ELSE IF ~t.q.ready THEN [kind |-> "Dropped", t |-> t]
  ELSE
    LET r == next_avail(t.q)
    IN IF r.head = 0
         THEN [kind |-> "Dropped", t |-> Depleted([t EXCEPT !.depleted = TRUE])]
       ELSE
         LET first == r.q.chains[r.head][1]
             t1 == [t EXCEPT !.q = r.q, !.dst_head = r.head,
                             !.dst = [chain |-> r.head, desc |-> 1, off |-> 0,
                                      left |-> first.size]]
         IN IF first.bad THEN [kind |-> "Exception", t |-> [t EXCEPT !.q = r.q]]
            ELSE IF t1.dst_header = 0 /\ t1.dst.left < HdrSize
              THEN [kind |-> "Runtime_error", t |-> t1]
            ELSE
              LET t2 == IF t1.dst_header = 0 THEN WriteHeader(t1, header) ELSE t1
              IN [kind |-> "ok", t |-> [t2 EXCEPT !.num_merged = t2.num_merged + 1]]

\* Lines 203-216: Request_processor::next on the destination chain, called in
\* every iteration: it loads the next descriptor of the chain into dst when
\* the current descriptor has the next flag.
DstNext(t) ==
  LET chain == t.q.chains[t.dst.chain]
  IN IF t.dst.desc >= Len(chain) THEN [kind |-> "ok", has |-> FALSE, t |-> t]
     ELSE IF chain[t.dst.desc + 1].bad THEN [kind |-> "Exception", has |-> FALSE, t |-> t]
     ELSE [kind |-> "ok", has |-> TRUE,
           t |-> [t EXCEPT !.dst = [chain |-> t.dst.chain, desc |-> t.dst.desc + 1,
                                    off |-> 0, left |-> chain[t.dst.desc + 1].size]]]

\* Line 225: total += mangle.copy_pkt(dst, src).
CopyStep(t) ==
  LET r == copy_pkt(t)
  IN [r.t EXCEPT !.total = r.t.total + r.n]

\* Lines 229-233: the chain is full, save it for the final finish.
SaveStep(t) ==
  [t EXCEPT !.consumed = Append(t.consumed, [head |-> t.dst_head, len |-> t.total]),
            !.total = 0,
            !.dst_head = 0]

\* dst_header->num_buffers = n (little endian, bytes 11 and 12 of the header).
SetNumBuffers(t, n) ==
  [t EXCEPT !.q.mem = WriteMem(t.q.mem, t.dst_header, 1, HdrSize - 2,
                               <<n % 256, n \div 256>>)]

\* FinishTransfer forgetting the chains saved earlier: a fault the delivery
\* property has to detect.
FinishLastChainOnly(t) ==
  IF t.dst_header = 0 THEN TransferResult("Dropped", t)
  ELSE
    LET t1 == SetNumBuffers(t, t.num_merged)
    IN TransferResult("Delivered",
         [t1 EXCEPT !.q = finish(t1.q, <<[head |-> t.dst_head, len |-> t.total]>>)])

\* Lines 243-267: finish the destination chains of a complete frame.
FinishTransfer(t) ==
  IF t.dst_header = 0 THEN TransferResult("Dropped", t)
  ELSE IF t.consumed = <<>> THEN
    LET t1 == SetNumBuffers(t, 1)
    IN TransferResult("Delivered",
         [t1 EXCEPT !.q = finish(t1.q, <<[head |-> t.dst_head, len |-> t.total]>>)])
  ELSE
    LET t1 == SetNumBuffers(t, t.num_merged)
        all == Append(t.consumed, [head |-> t.dst_head, len |-> t.total])
    IN TransferResult("Delivered", [t1 EXCEPT !.consumed = all, !.q = finish(t1.q, all)])

\* Lines 88-235: the copy loop.
RECURSIVE TransferLoop(_, _)
TransferLoop(t, header) ==
  LET s1 == SrcAdvance(t)
  IN IF s1.kind = "break" THEN FinishTransfer(t)
     ELSE IF s1.kind = "throw" THEN TransferResult("Bad_descriptor", s1.t)
     ELSE
       LET s2 == AcquireDst(s1.t, header)
       IN IF s2.kind # "ok" THEN TransferResult(s2.kind, s2.t)
          ELSE
            LET s3 == DstNext(s2.t)
            IN IF s3.kind # "ok" THEN TransferResult("Exception", s3.t)
               ELSE IF s3.t.dst.left # 0 \/ s3.has
                 THEN TransferLoop(CopyStep(s3.t), header)
                 ELSE TransferLoop(SaveStep(s3.t), header)

\* Virtio_net_transfer::transfer(request, dst_dev, dst_queue, mangle).
transfer(request, dst_queue, mangle) ==
  TransferLoop([src |-> request.pkt, srcq |-> request.rest,
                dst_head |-> 0,
                dst |-> [chain |-> 0, desc |-> 0, off |-> 0, left |-> 0],
                dst_header |-> 0, total |-> 0, num_merged |-> 0,
                consumed |-> <<>>, mangle |-> mangle, q |-> dst_queue,
                hdr_chains |-> <<>>, depleted |-> FALSE],
               request.header)

-----------------------------------------------------------------------------
(* Virtio_net_transfer of the variant with pending transfers (the second   *)
(* transfer.h): an object x that keeps the loop state between the calls    *)
(* of transfer().  A call yields [ret, x] with ret "true", "false" or the  *)
(* exception thrown.  _total has no initialiser; it is assigned before it  *)
(* is first added to or saved, so its start value is never used.           *)

\* The transfer object as the constructor leaves it.
NewTransfer(request, dst_queue, mangle) ==
  [src |-> request.pkt, srcq |-> request.rest, dst_head |-> 0,
   dst |-> [chain |-> 0, desc |-> 0, off |-> 0, left |-> 0],
   dst_header |-> 0, total |-> 0, num_merged |-> 0, consumed |-> <<>>,
   mangle |-> mangle, q |-> dst_queue, hdr_chains |-> <<>>, depleted |-> FALSE]

\* The finish call of finish_transfer and the reset of _dst_header.
Finished(x, entries) ==
  [x EXCEPT !.q = finish(x.q, entries), !.dst_header = 0]

\* Virtio_net_transfer::finish_transfer.
finish_transfer(x) ==
  IF x.dst_header = 0 THEN x
  ELSE IF x.consumed = <<>>
    THEN Finished(SetNumBuffers(x, 1), <<[head |-> x.dst_head, len |-> x.total]>>)
    ELSE Finished([SetNumBuffers(x, x.num_merged)
                     EXCEPT !.consumed = Append(x.consumed,
                                                [head |-> x.dst_head, len |-> x.total])],
                  Append(x.consumed, [head |-> x.dst_head, len |-> x.total]))

\* Virtio_net_transfer::~Virtio_net_transfer.
Destroy(x) == finish_transfer(x)

\* _dst_req_proc.start on the chain next_avail returned.
StartChain(x) ==
  [x EXCEPT !.q = next_avail(x.q).q,
            !.dst_head = next_avail(x.q).head,
            !.dst = [chain |-> next_avail(x.q).head, desc |-> 1, off |-> 0,
                     left |-> x.q.chains[next_avail(x.q).head][1].size]]

\* next_dst_buffer() when the chain has another descriptor.
NextDstBuffer(x) ==
  [x EXCEPT !.dst = [chain |-> x.dst.chain, desc |-> x.dst.desc + 1, off |-> 0,
                     left |-> x.q.chains[x.dst.chain][x.dst.desc + 1].size]]

RECURSIVE PendingLoop(_, _)

\* The copy or the save of one iteration: the next destination descriptor
\* is asked for only when the current one is full.
PendingCopy(x, header) ==
  IF x.dst.left # 0 THEN PendingLoop(CopyStep(x), header)
  ELSE IF x.dst.desc < Len(x.q.chains[x.dst.chain])
    THEN IF x.q.chains[x.dst.chain][x.dst.desc + 1].bad
           THEN [ret |-> "Bad_descriptor", x |-> x]
           ELSE PendingLoop(CopyStep(NextDstBuffer(x)), header)
    ELSE PendingLoop(SaveStep(x), header)

\* The header on the first chain, and the count of merged chains.
PendingHeader(x, header) ==
  IF x.dst_header # 0
    THEN PendingCopy([x EXCEPT !.num_merged = x.num_merged + 1], header)
  ELSE IF x.dst.left < HdrSize THEN [ret |-> "Runtime_error", x |-> x]
  ELSE PendingCopy([WriteHeader(x, header) EXCEPT !.num_merged = x.num_merged + 1],
                   header)

\* The loop of Virtio_net_transfer::transfer().
PendingLoop(x, header) ==
  IF x.src = <<>> /\ x.srcq = <<>> THEN [ret |-> "true", x |-> finish_transfer(x)]
  ELSE IF x.src = <<>> /\ Head(x.srcq).bad THEN [ret |-> "Bad_descriptor", x |-> x]
  ELSE IF x.src = <<>>
    THEN PendingLoop([x EXCEPT !.src = Head(x.srcq).data, !.srcq = Tail(x.srcq)], header)
  ELSE IF x.dst_head # 0 THEN PendingCopy(x, header)
  ELSE IF ~x.q.ready \/ ~desc_avail(x.q) THEN [ret |-> "false", x |-> x]
  ELSE IF x.q.chains[next_avail(x.q).head][1].bad
    THEN [ret |-> "Bad_descriptor", x |-> [x EXCEPT !.q = next_avail(x.q).q]]
  ELSE PendingHeader(StartChain(x), header)

\* What became of the object after a call of transfer(): deleted after
\* success and after an exception (the unique pointer runs the destructor),
\* left in the list of pending transfers otherwise.
AfterTransfer(o) ==
  IF o.ret = "true"
    THEN [op |-> "done", variant |-> "pending",
          r |-> TransferResult("Delivered", Destroy(o.x))]
  ELSE IF o.ret = "false"
    THEN [op |-> "pending", variant |-> "pending", x |-> o.x,
          r |-> TransferResult("Pending", o.x)]
  ELSE [op |-> "done", variant |-> "pending", r |-> TransferResult(o.ret, Destroy(o.x))]

-----------------------------------------------------------------------------
(* Mac_addr (mac_addr.h): six octets *)

Addr_unknown == Rep(0, Addr_length)

Addr_broadcast == Rep(255, Addr_length)

is_broadcast(mac) == mac = Addr_broadcast

is_unknown(mac) == mac = Addr_unknown

-----------------------------------------------------------------------------
(* Virtio_net_request (request.h): the view of one transmit chain.  A      *)
(* transmit chain is a sequence of descriptors [bad, data].                *)

\* The constructor, lines 295-311: thrown when loading a descriptor raises
\* Bad_descriptor, else the request with valid() = (_header != 0).
Virtio_net_request(chain) ==
  IF chain[1].bad THEN [thrown |-> TRUE, valid |-> FALSE]
  ELSE
    LET d1 == chain[1].data
        skipped == Min(HdrSize, Len(d1))
        pkt == Drop(d1, HdrSize)
    IN IF skipped # HdrSize THEN [thrown |-> FALSE, valid |-> FALSE]
       ELSE IF pkt # <<>>
         THEN [thrown |-> FALSE, valid |-> TRUE, header |-> Take(d1, HdrSize),
               pkt |-> pkt, rest |-> Tail(chain)]
       ELSE IF Len(chain) = 1 THEN [thrown |-> FALSE, valid |-> FALSE]
       ELSE IF chain[2].bad THEN [thrown |-> TRUE, valid |-> FALSE]
       ELSE [thrown |-> FALSE, valid |-> TRUE, header |-> Take(d1, HdrSize),
             pkt |-> chain[2].data, rest |-> Tail(Tail(chain))]

dst_mac(request) ==
  IF Len(request.pkt) >= Addr_length THEN Take(request.pkt, Addr_length)
  ELSE Addr_unknown

src_mac(request) ==
  IF Len(request.pkt) >= Addr_length * 2
    THEN SubSeq(request.pkt, Addr_length + 1, Addr_length * 2)
    ELSE Addr_unknown

has_vlan(request) ==
  IF Len(request.pkt) < 14 THEN FALSE
  ELSE request.pkt[13] = 129 /\ request.pkt[14] = 0

vlan_id(request) ==
  IF ~has_vlan(request) \/ Len(request.pkt) < 16 THEN VLAN_ID_NATIVE
  ELSE (request.pkt[15] * 256 + request.pkt[16]) % 4096

-----------------------------------------------------------------------------
(* Frames and descriptor layouts the clients use *)

MacA == <<2, 0, 0, 0, 0, 1>>

MacB == <<2, 0, 0, 0, 0, 2>>

\* An Ethernet frame: MACs, the 802.1Q tags (outermost first), EtherType
\* 0x0800 and the payload.
EthFrame(dst, src, tags, payload) ==
  dst \o src \o Flatten([i \in 1..Len(tags) |-> TagBytes(tags[i])]) \o <<8, 0>> \o payload

\* The bytes cut into descriptors of the given lengths, the last one taking
\* the rest.
RECURSIVE Layout(_, _)
Layout(bytes, cuts) ==
  IF cuts = <<>> \/ Len(bytes) <= Head(cuts)
    THEN <<[bad |-> FALSE, data |-> bytes]>>
    ELSE <<[bad |-> FALSE, data |-> Take(bytes, Head(cuts))]>>
         \o Layout(Drop(bytes, Head(cuts)), Tail(cuts))

BadDesc == [bad |-> TRUE, data |-> <<>>]

\* virtio-net headers: flags, gso_type, hdr_len, gso_size, csum_start,
\* csum_offset, num_buffers (16-bit fields little endian).
Hdrs == {Rep(0, HdrSize), <<1, 3, 14, 0, 5, 0, 34, 0, 16, 0, 9, 9>>}

HdrField(h, name) ==
  CASE name = "flags" -> h[1]
    [] name = "gso_type" -> h[2]
    [] name = "hdr_len" -> h[3] + 256 * h[4]
    [] name = "gso_size" -> h[5] + 256 * h[6]
    [] name = "csum_start" -> h[7] + 256 * h[8]
    [] name = "csum_offset" -> h[9] + 256 * h[10]
    [] name = "num_buffers" -> h[11] + 256 * h[12]

\* A receive ring of chains with the given descriptor sizes (0 - 1: a
\* descriptor that raises Bad_descriptor), the first `pulled` of them
\* consumed and finished by earlier frames.
RxQueue(ready, sizes, pulled) ==
  [ready |-> ready,
   chains |-> [c \in 1..Len(sizes) |->
                 [d \in 1..Len(sizes[c]) |->
                    [bad |-> sizes[c][d] < 0, size |-> sizes[c][d]]]],
   cur |-> pulled,
   mem |-> [c \in 1..Len(sizes) |->
              [d \in 1..Len(sizes[c]) |->
                 IF sizes[c][d] < 0 THEN <<>> ELSE Rep(Unwritten, sizes[c][d])]],
   used |-> [i \in 1..pulled |-> <<[head |-> i, len |-> HdrSize + 14]>>]]

-----------------------------------------------------------------------------
(* Virtio_port (port.h): the VLAN classifier.  A port object is a record;  *)
(* id stands for its address.  The Bloom filter word is the set of its     *)
(* one bits.                                                               *)

NoPort == [kind |-> "none"]

NoId == 0 - 1

NewPort(id, mac) ==
  [kind |-> "port", id |-> id, vlan_id |-> VLAN_ID_NATIVE,
   vlan_bloom_filter |-> {}, vlan_ids |-> {}, mac |-> mac]

vlan_bloom_hash(vid) == vid % BloomBits

is_trunk(port) == port.vlan_id = VLAN_ID_TRUNK

is_native(port) == port.vlan_id = VLAN_ID_NATIVE

is_access(port) == ~is_trunk(port) /\ ~is_native(port)

set_vlan_access(port, id) ==
  [port EXCEPT !.vlan_id = id, !.vlan_bloom_filter = {}, !.vlan_ids = {}]

set_vlan_trunk(port, ids) ==
  [port EXCEPT !.vlan_id = VLAN_ID_TRUNK,
               !.vlan_bloom_filter = {vlan_bloom_hash(id) : id \in ids},
               !.vlan_ids = ids]

set_monitor(port) ==
  [port EXCEPT !.vlan_id = VLAN_ID_TRUNK, !.vlan_bloom_filter = {}]

\* A classifier that lets every VLAN id pass: a fault the isolation
\* property has to detect.
match_any_vlan(port, id) == TRUE

match_vlan(port, id) ==
  IF id = port.vlan_id THEN TRUE
  ELSE IF vlan_bloom_hash(id) \notin port.vlan_bloom_filter THEN FALSE
  ELSE id \in port.vlan_ids

\* Switch_factory::op_create: the port as its options configure it.
CreatePort(id, mac, cfg) ==
  CASE cfg.mode = "native" -> NewPort(id, mac)
    [] cfg.mode = "access" -> set_vlan_access(NewPort(id, mac), cfg.id)
    [] cfg.mode = "trunk" -> set_vlan_trunk(NewPort(id, mac), cfg.ids)
    [] cfg.mode = "monitor" -> set_monitor(NewPort(id, mac))

-----------------------------------------------------------------------------
(* Mac_table (mac_table.h).  map is _mac_table, a set of [addr, entry]     *)
(* pairs with entry the index of the Entry pointed to; entries is          *)
(* _entries, indexed from 0; rr_index is _rr_index.                        *)

NoEntry == [port |-> NoId, addr |-> Addr_unknown]

EmptyMacTable ==
  [map |-> {}, entries |-> [i \in 0..(TableSize - 1) |-> NoEntry], rr_index |-> 0]

\* A lookup that never finds an address: a fault the unicast property has
\* to detect.
lookup_miss(tbl, dst) == NoId

lookup(tbl, dst) ==
  IF \E m \in tbl.map : m.addr = dst
    THEN tbl.entries[(CHOOSE m \in tbl.map : m.addr = dst).entry].port
    ELSE NoId

\* learn that keeps the key of the entry it overwrites in the map: a fault
\* the capacity property has to detect.
learn_no_erase(tbl, src, port) ==
  IF ~\E m \in tbl.map : m.addr = src
    THEN [map |-> tbl.map \cup {[addr |-> src, entry |-> tbl.rr_index]},
          entries |-> [tbl.entries EXCEPT ![tbl.rr_index] = [port |-> port, addr |-> src]],
          rr_index |-> (tbl.rr_index + 1) % TableSize]
    ELSE tbl

\* learn that does not advance the round-robin index: a fault the eviction
\* order property has to detect.
learn_no_advance(tbl, src, port) ==
  IF ~\E m \in tbl.map : m.addr = src
    THEN [map |-> {m \in tbl.map : m.addr # tbl.entries[tbl.rr_index].addr}
                    \cup {[addr |-> src, entry |-> tbl.rr_index]},
          entries |-> [tbl.entries EXCEPT ![tbl.rr_index] = [port |-> port, addr |-> src]],
          rr_index |-> tbl.rr_index]
    ELSE tbl

\* learn that takes a new slot for an address it already holds: a fault the
\* uniqueness property has to detect.
learn_always_new(tbl, src, port) ==
  [map |-> {m \in tbl.map : tbl.entries[tbl.rr_index].port = NoId
                              \/ m.addr # tbl.entries[tbl.rr_index].addr}
             \cup {[addr |-> src, entry |-> tbl.rr_index]},
   entries |-> [tbl.entries EXCEPT ![tbl.rr_index] = [port |-> port, addr |-> src]],
   rr_index |-> (tbl.rr_index + 1) % TableSize]

learn(tbl, src, port) ==
  IF ~\E m \in tbl.map : m.addr = src
    THEN
      LET rr == tbl.rr_index
          inserted == tbl.map \cup {[addr |-> src, entry |-> rr]}
          map2 == IF tbl.entries[rr].port # NoId
                    THEN {m \in inserted : m.addr # tbl.entries[rr].addr}
                    ELSE inserted
      IN [map |-> map2,
          entries |-> [tbl.entries EXCEPT ![rr] = [port |-> port, addr |-> src]],
          rr_index |-> (rr + 1) % TableSize]
    ELSE
      LET e == (CHOOSE m \in tbl.map : m.addr = src).entry
      IN [tbl EXCEPT !.entries[e].port = port]

\* The order of Mac_addr keys in the std::map.
RECURSIVE MacLess(_, _)
MacLess(a, b) ==
  IF a = <<>> \/ b = <<>> THEN FALSE
  ELSE IF Head(a) # Head(b) THEN Head(a) < Head(b)
  ELSE MacLess(Tail(a), Tail(b))

\* flush visits the keys in order; todo is the part of the map not visited.
RECURSIVE FlushFrom(_, _, _)
FlushFrom(tbl, todo, port) ==
  IF todo = {} THEN tbl
  ELSE
    LET m == CHOOSE x \in todo : \A y \in todo : y = x \/ MacLess(x.addr, y.addr)
    IN IF tbl.entries[m.entry].port = port
         THEN FlushFrom([tbl EXCEPT !.entries[m.entry] = NoEntry,
                                    !.map = tbl.map \ {m}],
                        todo \ {m}, port)
         ELSE FlushFrom(tbl, todo \ {m}, port)

\* A flush that leaves the table as it is: a fault the referential
\* integrity property has to detect.
flush_nothing(tbl, port) == tbl

flush(tbl, port) == FlushFrom(tbl, tbl.map, port)

-----------------------------------------------------------------------------
(* Virtio_port: requests in and out *)

\* Virtio_port::get_tx_request on a transmit chain: the request, or none
\* with the chain finished by the destructor of the rejected request, or the
\* Bad_descriptor the constructor let through.
get_tx_request(port, chain) ==
  LET ret == Virtio_net_request(chain)
  IN IF ret.thrown THEN [kind |-> "thrown"]
     ELSE IF ~ret.valid THEN [kind |-> "none"]
     ELSE IF is_trunk(port) /\ vlan_id(ret) \notin port.vlan_ids THEN [kind |-> "none"]
     ELSE IF ~is_trunk(port) /\ is_access(port) /\ has_vlan(ret) THEN [kind |-> "none"]
     ELSE [kind |-> "request", request |-> ret]

\* The loop of Virtio_net_request::drop_requests from the next available
\* chain on: every head is finished with length 0; req_proc.start on a bad
\* head descriptor throws Bad_descriptor out of the loop.
RECURSIVE DropFrom(_, _, _)
DropFrom(txq, cur, used) ==
  IF ~(cur < Len(txq)) THEN [cur |-> cur, used |-> used, thrown |-> FALSE]
  ELSE IF txq[cur + 1][1].bad THEN [cur |-> cur + 1, used |-> used, thrown |-> TRUE]
  ELSE DropFrom(txq, cur + 1, Append(used, [head |-> cur + 1, len |-> 0]))

\* Virtio_port::drop_requests on a transmit ring of chains txq.
drop_requests(ready, txq) ==
  IF ~ready THEN [cur |-> 0, used |-> <<>>, thrown |-> FALSE]
  ELSE DropFrom(txq, 0, <<>>)

\* A selection that never mangles: a fault the mangle selection property
\* has to detect.
select_no_mangle(port, src_port) == mangle_none

\* The mangle Virtio_port::handle_request chooses for this port as target.
select_mangle(port, src_port) ==
  IF is_trunk(port)
    THEN IF ~is_trunk(src_port) /\ ~is_native(src_port)
           THEN mangle_add(src_port.vlan_id)
           ELSE mangle_none
    ELSE IF is_trunk(src_port) THEN mangle_remove ELSE mangle_none

\* What a handle_request call leaves behind: the mangle chosen, the result
\* r of transfer() and the receive ring of the port afterwards.
HandledBy(port, mangle, r) ==
  [port |-> port.id, mangle |-> mangle, result |-> r.result, q |-> r.q,
   thrown |-> r.result \in {"Bad_descriptor", "Runtime_error"}]

\* Virtio_port::handle_request(src_port, request) on the target port.
handle_request(port, src_port, request, rx_q) ==
  HandledBy(port, select_mangle(port, src_port),
            transfer(request, rx_q, select_mangle(port, src_port)))

-----------------------------------------------------------------------------
(* Virtio_switch (switch.cc) *)

MonitorId == MaxPorts

Slots == 0..(MaxPorts - 1)

lookup_free_slot(ps) ==
  IF \E idx \in Slots : ps[idx] = NoPort
    THEN CHOOSE idx \in Slots : ps[idx] = NoPort /\ \A j \in 0..(idx - 1) : ps[j] # NoPort
    ELSE NoId

\* An add_port that installs the port in slot 0 whatever is there: a fault
\* the configuration rejection property has to detect.
add_port_unchecked(ps, mu, port) ==
  [ok |-> TRUE, ports |-> [ps EXCEPT ![0] = port], max_used |-> IF mu = 0 THEN 1 ELSE mu]

\* add_port: the new _ports and _max_used and the value returned.
add_port(ps, mu, port) ==
  IF ~is_unknown(port.mac) /\ \E idx \in Slots : ps[idx] # NoPort /\ ps[idx].mac = port.mac
    THEN [ok |-> FALSE, ports |-> ps, max_used |-> mu]
  ELSE IF lookup_free_slot(ps) < 0 THEN [ok |-> FALSE, ports |-> ps, max_used |-> mu]
  ELSE
    LET uidx == lookup_free_slot(ps)
    IN [ok |-> TRUE, ports |-> [ps EXCEPT ![uidx] = port],
        max_used |-> IF mu = uidx THEN mu + 1 ELSE mu]

\* add_monitor_port: the new _monitor and the value returned.
add_monitor_port(mon, port) ==
  IF mon = NoPort THEN [ok |-> TRUE, monitor |-> port]
  ELSE [ok |-> FALSE, monitor |-> mon]

\* The port loop of check_ports from idx on; gone is the set of port objects
\* whose client capability is no longer valid.
RECURSIVE CheckFrom(_, _, _, _, _)
CheckFrom(idx, ps, mu, tbl, gone) ==
  IF ~(idx < mu) THEN [ports |-> ps, max_used |-> mu, mac_table |-> tbl]
  ELSE IF ps[idx] # NoPort /\ ps[idx].id \in gone
    THEN CheckFrom(idx + 1, [ps EXCEPT ![idx] = NoPort],
                   IF idx = mu - 1 THEN mu - 1 ELSE mu,
                   flush(tbl, ps[idx].id), gone)
    ELSE CheckFrom(idx + 1, ps, mu, tbl, gone)

\* A comparison that never recognises the source port: a fault the
\* self-loop property has to detect.
never_same_port(target, port) == FALSE

\* target == port, the comparison of two port pointers.
same_port(target, port) == target.id = port.id

\* The flood loop of handle_tx_queue from idx on; handed collects the
\* handle_request calls made.  A throw ends the loop.
RECURSIVE FloodFrom(_, _, _, _, _, _, _, _)
FloodFrom(idx, ps, mu, port, request, vlan, rxs, handed) ==
  IF handed # <<>> /\ handed[Len(handed)].thrown
    THEN [handed |-> handed, thrown |-> TRUE]
  ELSE IF ~(idx < mu /\ ps[idx] # NoPort) THEN [handed |-> handed, thrown |-> FALSE]
  ELSE IF ~same_port(ps[idx], port) /\ match_vlan(ps[idx], vlan)
    THEN FloodFrom(idx + 1, ps, mu, port, request, vlan, rxs,
                   Append(handed, handle_request(ps[idx], port, request, rxs[ps[idx].id])))
    ELSE FloodFrom(idx + 1, ps, mu, port, request, vlan, rxs, handed)

\* The port object a MAC table entry points to.
PortOf(ps, id) == ps[CHOOSE idx \in Slots : ps[idx] # NoPort /\ ps[idx].id = id]

\* A rejection that never gives the chain back: a fault the source
\* descriptor return property has to detect.
RejectedUnfinished(tbl, got) ==
  [accepted |-> FALSE, mac_table |-> tbl, handed |-> <<>>, mirrored |-> <<>>,
   flood |-> FALSE, vlan |-> NoId, target |-> NoId,
   finished |-> FALSE, thrown |-> got.kind = "thrown"]

\* What a handle_tx_queue call did.  accepted: get_tx_request returned a
\* request; finished: the destructor of the request gave the chain back to
\* the client (with length 0); thrown: an exception left the function.
\* Lines 108-110: no request.
\* A rejection that loses what the table has learned: a fault the ingress
\* properties have to detect.
RejectedCleared(tbl, got) ==
  [accepted |-> FALSE, mac_table |-> EmptyMacTable, handed |-> <<>>, mirrored |-> <<>>,
   flood |-> FALSE, vlan |-> NoId, target |-> NoId,
   finished |-> got.kind = "none", thrown |-> got.kind = "thrown"]

Rejected(tbl, got) ==
  [accepted |-> FALSE, mac_table |-> tbl, handed |-> <<>>, mirrored |-> <<>>,
   flood |-> FALSE, vlan |-> NoId, target |-> NoId,
   finished |-> got.kind = "none", thrown |-> got.kind = "thrown"]

\* Lines 112-121: learn the source, classify the frame, look up the target.
Classify(tbl, port, request) ==
  [accepted |-> TRUE, mac_table |-> learn(tbl, src_mac(request), port.id),
   handed |-> <<>>, mirrored |-> <<>>, flood |-> FALSE,
   vlan |-> IF has_vlan(request) THEN vlan_id(request) ELSE port.vlan_id,
   target |-> IF is_broadcast(dst_mac(request)) THEN NoId
              ELSE lookup(learn(tbl, src_mac(request), port.id), dst_mac(request)),
   finished |-> TRUE, thrown |-> FALSE]

Unicast(out, h) == [out EXCEPT !.handed = <<h>>, !.thrown = h.thrown]

Flooded(out, f) == [out EXCEPT !.flood = TRUE, !.handed = f.handed, !.thrown = f.thrown]

MirrorHanded(out, h) == [out EXCEPT !.mirrored = <<h>>, !.thrown = h.thrown]

\* The copy for the monitor port, lines 129-130 and 146-147.
Mirror(out, mon, filtered, port, request, rxs) ==
  IF ~out.thrown /\ mon # NoPort /\ ~filtered
    THEN MirrorHanded(out, handle_request(mon, port, request, rxs[mon.id]))
    ELSE out

\* Lines 118-147: unicast to the looked-up target or flood, then mirror.
Forward(ps, mu, mon, port, request, rxs, filtered, out) ==
  IF out.target # NoId
    THEN IF ~same_port(PortOf(ps, out.target), port)
              /\ match_vlan(PortOf(ps, out.target), out.vlan)
           THEN Mirror(Unicast(out, handle_request(PortOf(ps, out.target), port,
                                                   request, rxs[out.target])),
                       mon, filtered, port, request, rxs)
           ELSE out
    ELSE Mirror(Flooded(out, FloodFrom(0, ps, mu, port, request, out.vlan, rxs, <<>>)),
                mon, filtered, port, request, rxs)

Dispatch(ps, mu, mon, tbl, port, got, rxs, filtered) ==
  IF got.kind # "request" THEN Rejected(tbl, got)
  ELSE Forward(ps, mu, mon, port, got.request, rxs, filtered,
               Classify(tbl, port, got.request))

\* handle_tx_queue(port) with chain the next chain of the port's transmit
\* queue and rxs the receive ring of every port, by port id.
handle_tx_queue(ps, mu, mon, tbl, port, chain, rxs, filtered) ==
  Dispatch(ps, mu, mon, tbl, port, get_tx_request(port, chain), rxs, filtered)

-----------------------------------------------------------------------------
(* The switch as a state machine *)

\* The port configurations clients are created with.
PortConfigs ==
  {[mode |-> "native"], [mode |-> "access", id |-> 10], [mode |-> "trunk", ids |-> {10}]}

\* The frames clients transmit: station A to everybody and station B to
\* station A, each untagged, tagged for VLAN 10 or tagged for VLAN 42 (which
\* shares the Bloom bit of VLAN 10).
TxFrames ==
  {EthFrame(a[1], a[2], tags, <<1, 2>>) :
     a \in {<<Addr_broadcast, MacA>>, <<MacA, MacB>>}, tags \in {<<>>, <<10>>, <<42>>}}

TxHeader == <<1, 3, 14, 0, 5, 0, 34, 0, 16, 0, 9, 9>>

\* Transmit chains the switch cannot use: the head descriptor is bad, the
\* descriptor behind the frame's first bytes is bad, the header does not
\* fit, there is nothing behind the header.
BadTxChains ==
  {<<BadDesc>>,
   Layout(TxHeader \o Take(EthFrame(Addr_broadcast, MacA, <<>>, <<1, 2>>), 14), <<HdrSize>>)
     \o <<BadDesc>>,
   Layout(Take(TxHeader, 8), <<>>),
   Layout(TxHeader, <<>>)}

\* The transmit chains: header and frame in one descriptor, or the header,
\* the two MAC addresses and the rest in a descriptor each; a tagged frame
\* whose first buffer ends behind the TPID; a frame with two tags.
TxChains ==
  {Layout(TxHeader \o f, cuts) : f \in TxFrames, cuts \in {<<>>, <<HdrSize, 12>>}}
    \cup {Layout(TxHeader \o EthFrame(Addr_broadcast, MacA, <<10>>, <<1, 2>>), <<HdrSize, 14>>),
          Layout(TxHeader \o EthFrame(Addr_broadcast, MacA, <<10, 42>>, <<1, 2>>), <<>>)}
    \cup BadTxChains

\* A well-formed transmit chain: header and untagged broadcast frame.
TxChain1 == Layout(TxHeader \o EthFrame(Addr_broadcast, MacA, <<>>, <<1, 2>>), <<>>)

\* The receive ring a target offers when a frame arrives.
RxRing == RxQueue(TRUE, <<<<64>>>>, 0)

\* A receive ring whose first descriptor cannot hold the virtio-net header.
ShortRing == RxQueue(TRUE, <<<<8, 64>>>>, 0)

\* The receive rings of the ports when a frame arrives, by port id: every
\* client offers a large chain, or the client of the port in the last slot
\* offers a chain that starts with a short descriptor.
RxRingsOf ==
  {[id \in 0..MaxPorts |-> RxRing],
   [id \in 0..MaxPorts |-> IF id = MaxPorts - 1 THEN ShortRing ELSE RxRing]}

Idle == [op |-> "none"]

NoTransfer == [op |-> "none"]

\* The value of a variable in the specifications that do not use it.
NotModelled == [op |-> "none"]

Init ==
  /\ ports = [idx \in Slots |-> NoPort]
  /\ max_used = 0
  /\ monitor = NoPort
  /\ mac_table = EmptyMacTable
  /\ last = Idle
  /\ tin = NoTransfer
  /\ tout = NoTransfer
  /\ pend = NotModelled
  /\ devs = NotModelled
  /\ irq = NotModelled

\* Switch_factory::op_create for a switch port: create, configure, add_port.
\* mac is the address of a mac= option, Addr_unknown without the option.
AddPort(cfg, mac) ==
  LET id == lookup_free_slot(ports)
      r == add_port(ports, max_used, CreatePort(id, mac, cfg))
  IN /\ last = Idle
     /\ id # NoId
     /\ ports' = r.ports
     /\ max_used' = r.max_used
     /\ last' = Idle
     /\ UNCHANGED <<monitor, mac_table, tin, tout, pend, devs, irq>>

\* Switch_factory::op_create for a monitor port.
AddMonitorPort(mac) ==
  /\ last = Idle
  /\ monitor = NoPort
  /\ monitor' = CreatePort(MonitorId, mac, [mode |-> "monitor"])
  /\ last' = Idle
  /\ UNCHANGED <<ports, max_used, mac_table, tin, tout, pend, devs, irq>>

\* Virtio_switch::check_ports after the clients of the ports in gone left.
CheckPorts(gone) ==
  LET r == CheckFrom(0, ports, max_used, mac_table, gone)
  IN /\ last = Idle
     /\ gone # {}
     /\ \A id \in gone : \/ id = MonitorId /\ monitor # NoPort
                         \/ id \in Slots /\ ports[id] # NoPort
     /\ ports' = r.ports
     /\ max_used' = r.max_used
     /\ mac_table' = r.mac_table
     /\ monitor' = IF MonitorId \in gone THEN NoPort ELSE monitor
     /\ last' = Idle
     /\ UNCHANGED <<tin, tout, pend, devs, irq>>

\* Virtio_switch::handle_tx_queue for a port with a chain in its transmit
\* queue.
HandleTxQueue(idx, chain, rxs) ==
  /\ last = Idle
  /\ ports[idx] # NoPort
  /\ last' = [op |-> "tx", port |-> ports[idx].id, chain |-> chain,
               r |-> handle_tx_queue(ports, max_used, monitor, mac_table, ports[idx],
                                     chain, rxs, FALSE)]
  /\ mac_table' = last'.r.mac_table
  /\ UNCHANGED <<ports, max_used, monitor, tin, tout, pend, devs, irq>>

\* The handler returned; the server loop waits for the next event.
Return ==
  /\ last # Idle
  /\ last' = Idle
  /\ UNCHANGED <<ports, max_used, monitor, mac_table, tin, tout, pend, devs, irq>>

\* The transmit rings a monitor client kicks the switch with.
MonitorTxRings ==
  {<<c>> : c \in {TxChain1, <<BadDesc>>}}
    \cup {<<TxChain1, TxChain1>>, <<TxChain1, <<BadDesc>>, TxChain1>>}

\* Monitor_port::Kick_irq::handle_irq: the transmit ring is dropped.
MonitorKick(txq) ==
  /\ last = Idle
  /\ monitor # NoPort
  /\ last' = [op |-> "monitor", txq |-> txq, r |-> drop_requests(TRUE, txq)]
  /\ UNCHANGED <<ports, max_used, monitor, mac_table, tin, tout, pend, devs, irq>>

Next ==
  \/ \E cfg \in PortConfigs : AddPort(cfg, Addr_unknown)
  \/ AddMonitorPort(Addr_unknown)
  \/ \E gone \in SUBSET (0..MaxPorts) : CheckPorts(gone)
  \/ \E idx \in Slots, chain \in TxChains, rxs \in RxRingsOf : HandleTxQueue(idx, chain, rxs)
  \/ \E txq \in MonitorTxRings : MonitorKick(txq)
  \/ Return

Spec == Init /\ [][Next]_vars

-----------------------------------------------------------------------------
(* The ports of the switch with mac= options, as a state machine *)

\* The addresses of the mac= option; Addr_unknown stands for no option.
PortMacs == {Addr_unknown, MacA, MacB}

\* The identity of a port object created while the port array is full.
SpareId == MaxPorts + 1

\* Virtio_switch::add_port called with a new port object, whether or not
\* port_available() found a slot; last keeps the port and the result.
CallAddPort(cfg, mac) ==
  /\ last = Idle
  /\ last' = [op |-> "add_port",
               port |-> CreatePort(IF lookup_free_slot(ports) = NoId THEN SpareId
                                   ELSE lookup_free_slot(ports), mac, cfg),
               r |-> add_port(ports, max_used,
                              CreatePort(IF lookup_free_slot(ports) = NoId THEN SpareId
                                         ELSE lookup_free_slot(ports), mac, cfg))]
  /\ ports' = last'.r.ports
  /\ max_used' = last'.r.max_used
  /\ UNCHANGED <<monitor, mac_table, tin, tout, pend, devs, irq>>

\* Virtio_switch::add_monitor_port called with a new port object, whether
\* or not a monitor port exists.
CallAddMonitorPort(mac) ==
  /\ last = Idle
  /\ last' = [op |-> "add_monitor_port",
               port |-> CreatePort(MonitorId, mac, [mode |-> "monitor"]),
               r |-> add_monitor_port(monitor,
                                      CreatePort(MonitorId, mac, [mode |-> "monitor"]))]
  /\ monitor' = last'.r.monitor
  /\ UNCHANGED <<ports, max_used, mac_table, tin, tout, pend, devs, irq>>

NextPorts ==
  \/ \E cfg \in PortConfigs, mac \in PortMacs : AddPort(cfg, mac)
  \/ \E mac \in PortMacs : AddMonitorPort(mac)
  \/ \E gone \in SUBSET (0..MaxPorts) : CheckPorts(gone)
  \/ \E mac \in PortMacs : CallAddPort([mode |-> "native"], mac)
  \/ CallAddMonitorPort(Addr_unknown)
  \/ HandleTxQueue(0, Layout(TxHeader \o EthFrame(Addr_broadcast, MacA, <<>>, <<1, 2>>),
                             <<HdrSize + Addr_length>>),
                   [id \in 0..MaxPorts |-> RxRing])
  \/ Return

SpecPorts == Init /\ [][NextPorts]_vars

-----------------------------------------------------------------------------
(* The MAC table on its own, as a state machine.  last is the history of   *)
(* the calls: learned is the sequence of [mac, port] learned so far while  *)
(* pure holds, that is while no address was learned twice and no port was  *)
(* flushed; relearned and flushed tell what ended it.                      *)

\* The station addresses: twice as many as the table has entries.
StationMacs == {<<2, 0, 0, 0, 0, i>> : i \in 1..(2 * TableSize)}

InitMac ==
  /\ ports = [idx \in Slots |-> NoPort]
  /\ max_used = 0
  /\ monitor = NoPort
  /\ mac_table = EmptyMacTable
  /\ last = [op |-> "mac", learned |-> <<>>, pure |-> TRUE,
              relearned |-> FALSE, flushed |-> FALSE]
  /\ tin = NoTransfer
  /\ tout = NoTransfer
  /\ pend = NotModelled
  /\ devs = NotModelled
  /\ irq = NotModelled

\* Mac_table::learn(src, port).
Learn(src, port) ==
  /\ mac_table' = learn(mac_table, src, port)
  /\ last' = IF last.pure /\ \A i \in 1..Len(last.learned) : last.learned[i].mac # src
               THEN [last EXCEPT !.learned = Append(@, [mac |-> src, port |-> port])]
             ELSE IF \E m \in mac_table.map : m.addr = src
               THEN [last EXCEPT !.learned = <<>>, !.pure = FALSE, !.relearned = TRUE]
             ELSE [last EXCEPT !.learned = <<>>, !.pure = FALSE]
  /\ UNCHANGED <<ports, max_used, monitor, tin, tout, pend, devs, irq>>

\* Mac_table::flush(port).
Flush(port) ==
  /\ mac_table' = flush(mac_table, port)
  /\ last' = [last EXCEPT !.learned = <<>>, !.pure = FALSE, !.flushed = TRUE]
  /\ UNCHANGED <<ports, max_used, monitor, tin, tout, pend, devs, irq>>

NextMac ==
  \/ \E src \in StationMacs, port \in Slots : Learn(src, port)
  \/ \E port \in Slots : Flush(port)

SpecMac == InitMac /\ [][NextMac]_vars

-----------------------------------------------------------------------------
(* One call of transfer() as a state machine *)

BadSize == 0 - 1

\* The descriptor sizes of the receive rings transfer() is run against.
RingShapes ==
  { <<<<64>>>>,                    \* one large chain
    <<<<20>>, <<20>>>>,            \* the frame needs both chains
    <<<<20>>>>,                    \* the ring runs out after one chain
    <<>>,                          \* nothing available
    <<<<HdrSize, 64>>>>,           \* a descriptor for the header, one for the frame
    <<<<16, 64>>>>,                \* the header leaves room in its descriptor
    <<<<8, 64>>>>,                 \* the first descriptor cannot hold the header
    <<<<14>>, <<10>>, <<10>>>>,    \* three chains
    <<<<14>>, <<14>>>>,            \* two chains, exactly 28 bytes
    <<<<16>>, <<6, 6>>, <<20>>>>,  \* a later chain of two descriptors
    <<<<BadSize>>>>,               \* the head descriptor is bad
    <<<<20, BadSize>>>> }          \* the second descriptor is bad

\* The rings: every shape untouched, or behind a chain an earlier frame used.
RxRings ==
  {RxQueue(TRUE, sh, 0) : sh \in RingShapes}
    \cup {RxQueue(TRUE, <<<<64>>>> \o sh, 1) : sh \in RingShapes}
    \cup {RxQueue(FALSE, <<<<64>>>>, 0)}

\* How clients cut header and frame into descriptors.
SrcCuts == {<<>>, <<HdrSize>>, <<HdrSize, 5>>, <<HdrSize, 12>>, <<HdrSize, 13>>, <<17>>}

\* The transmit chains, some of them ending in a bad descriptor.
SrcChains(header, frame) ==
  {Layout(header \o frame, cuts) : cuts \in SrcCuts}
    \cup {Layout(header \o Take(frame, 15), <<HdrSize>>) \o <<BadDesc>>}

TransferFrames ==
  {EthFrame(MacA, MacB, tags, <<1, 2>>) : tags \in {<<>>, <<10>>}}

\* A mangle handle_request can choose for the request: Remove for a frame
\* a trunk port let in, Insert for a frame an access port let in.
MangleFor(request) ==
  {mangle_none}
    \cup (IF has_vlan(request) /\ vlan_id(request) = 10 THEN {mangle_remove} ELSE {})
    \cup (IF ~has_vlan(request) THEN {mangle_add(10)} ELSE {})

TransferInputs ==
  UNION {{[op |-> "transfer", header |-> h, frame |-> f,
           request |-> Virtio_net_request(c), q |-> q, mangle |-> m] :
            c \in SrcChains(h, f), q \in RxRings,
            m \in {mangle_none, mangle_remove, mangle_add(10)}} :
         h \in Hdrs, f \in TransferFrames}

InitTransfer ==
  /\ ports = [idx \in Slots |-> NoPort]
  /\ max_used = 0
  /\ monitor = NoPort
  /\ mac_table = EmptyMacTable
  /\ last = Idle
  /\ tin \in {i \in TransferInputs : i.request.valid /\ i.mangle \in MangleFor(i.request)}
  /\ tout = NoTransfer
  /\ pend = NotModelled
  /\ devs = NotModelled
  /\ irq = NotModelled

\* Virtio_net_transfer::transfer(request, dst_dev, dst_queue, mangle) of the
\* inline variant.
DoTransfer ==
  /\ tout = NoTransfer
  /\ tout' = [op |-> "done", variant |-> "inline",
               r |-> transfer(tin.request, tin.q, tin.mangle)]
  /\ UNCHANGED <<ports, max_used, monitor, mac_table, last, tin, pend, devs, irq>>

\* Virtio_port::handle_request of the pending variant: a new transfer
\* object and its first call of transfer().
PendingTransfer ==
  /\ tout = NoTransfer
  /\ tout' = AfterTransfer(PendingLoop(NewTransfer(tin.request, tin.q, tin.mangle),
                                       tin.request.header))
  /\ UNCHANGED <<ports, max_used, monitor, mac_table, last, tin, pend, devs, irq>>

\* The chains a client adds to its receive ring before it kicks the switch.
RefillShapes == {<<<<20>>>>, <<<<64>>>>}

Refill(q, sizes) ==
  [q EXCEPT !.chains = q.chains \o RxQueue(TRUE, sizes, 0).chains,
            !.mem = q.mem \o RxQueue(TRUE, sizes, 0).mem]

\* Virtio_port::handle_rx_queue on the pending transfer, after the client
\* made chains available.
Retry(sizes) ==
  /\ tout.op = "pending"
  /\ tout.x.q.ready
  /\ tout' = AfterTransfer(PendingLoop([tout.x EXCEPT !.q = Refill(tout.x.q, sizes)],
                                       tin.request.header))
  /\ UNCHANGED <<ports, max_used, monitor, mac_table, last, tin, pend, devs, irq>>

\* Virtio_net_transfer::expired: the timeout deletes the pending transfer.
Expired ==
  /\ tout.op = "pending"
  /\ tout' = [op |-> "done", variant |-> "pending",
               r |-> TransferResult("Expired", Destroy(tout.x))]
  /\ UNCHANGED <<ports, max_used, monitor, mac_table, last, tin, pend, devs, irq>>

NextTransfer ==
  \/ DoTransfer
  \/ PendingTransfer
  \/ \E sizes \in RefillShapes : Retry(sizes)
  \/ Expired

SpecTransfer == InitTransfer /\ [][NextTransfer]_vars

-----------------------------------------------------------------------------
(* A destination port of the variant with pending transfers (the second    *)
(* port.h) as a state machine.  pend is the port:                          *)
(*   alive    the port object exists,                                      *)
(*   aborted  an assertion or an access to a freed port ended the process, *)
(*   asserts  the build has assertions enabled,                            *)
(*   q        the receive ring, shared with its client,                    *)
(*   list     _pending_requests: the transfer objects, oldest first, each  *)
(*            with the number n of its frame,                              *)
(*   sent     the frames handed to handle_request so far (frame n is the   *)
(*            n-th frame pulled from the source),                          *)
(*   ended    the transfer objects deleted so far, in that order, each     *)
(*            with the reason and the finish call made for it, if any,     *)
(*   refills  how often the client added chains to the ring,               *)
(*   refs     the Request_ptr references to the request of each frame,     *)
(*   returned the frames whose head was finished on the source queue,      *)
(*   srcalive the source port object exists.                               *)

MaxFrames == 2     \* frames the source port transmits to the destination
MaxRefills == 2    \* times the client of the destination refills its ring

\* The n-th frame the source transmits.
PendingFrame(n) == EthFrame(MacB, MacA, <<>>, <<n, n>>)

\* The transmit chains of the n-th frame: one descriptor, the header in a
\* descriptor of its own, or a bad descriptor behind the first 14 bytes.
PendingChains(n) ==
  {Layout(TxHeader \o PendingFrame(n), <<>>),
   Layout(TxHeader \o PendingFrame(n), <<HdrSize>>),
   Layout(TxHeader \o Take(PendingFrame(n), 14), <<HdrSize>>) \o <<BadDesc>>}

\* The receive rings the destination starts with.
PendingRings == {RxQueue(TRUE, sh, 0) : sh \in {<<>>, <<<<20>>>>, <<<<64>>>>}}

\* A reference drop that finishes the source head whatever the count is: a
\* fault the lifetime property of the source buffers has to detect.
unref_finish(p, n) ==
  [p EXCEPT !.refs[n] = @ - 1, !.returned = @ \cup {n}]

\* A Request_ptr to request n goes away.  The last one deletes the request,
\* and ~Virtio_net_request finishes the head on the queue of the source.
Unref(p, n) ==
  IF p.refs[n] = 1
    THEN [p EXCEPT !.refs[n] = 0, !.returned = @ \cup {n}]
    ELSE [p EXCEPT !.refs[n] = @ - 1]

\* The object of a transfer is deleted; p.q is the ring as it was before
\* the call of transfer() that led here.  The destructor runs finish_transfer
\* and then drops the transfer's reference to the request.
\* With a frame copied in part (_dst_header set, chains saved in _consumed,
\* no current head) finish_transfer asserts _dst_head: a build with
\* assertions ends the process there, a build without them goes on to the
\* finish call.
Deleted(p, n, x, how) ==
  IF p.asserts /\ x.dst_header # 0 /\ x.dst_head = 0
    THEN [p EXCEPT !.aborted = TRUE]
    ELSE Unref([p EXCEPT !.q = Destroy(x).q,
                         !.ended = Append(p.ended,
                           [n |-> n, how |-> how,
                            finished |-> Len(Destroy(x).q.used) > Len(p.q.used),
                            entries |-> IF Len(Destroy(x).q.used) > Len(p.q.used)
                                          THEN Destroy(x).q.used[Len(Destroy(x).q.used)]
                                          ELSE <<>>])],
               n)

\* The end of handle_request for the outcome o of the first transfer():
\* the object is queued when transfer() returned false and deleted by the
\* unique pointer otherwise.
Enqueue(p, n, request, o) ==
  IF o.ret = "false"
    THEN [p EXCEPT !.q = o.x.q,
                   !.list = Append(p.list, [n |-> n, header |-> request.header, x |-> o.x])]
    ELSE Deleted(p, n, o.x, IF o.ret = "true" THEN "direct" ELSE o.ret)

\* Virtio_port::handle_request(src_port, request) of the pending variant,
\* for frame n.  The new transfer holds a reference to the request.
handle_request_pending(p, n, request) ==
  Enqueue([p EXCEPT !.refs[n] = @ + 1], n, request,
          PendingLoop(NewTransfer(request, p.q, mangle_none), request.header))

\* A handle_rx_queue that forgets the transfers it finds: a fault the
\* pending retry property has to detect.
handle_rx_queue_forget(p) == [p EXCEPT !.list = <<>>]

RECURSIVE handle_rx_queue(_)

\* One iteration of the loop of handle_rx_queue for the outcome o of
\* transfer() on the first list element: left in the list and the loop
\* ended, erased and deleted and the loop continued, or deleted by the
\* unique pointer while the exception leaves the function.
RxQueueStep(p, e, o) ==
  IF o.ret = "false"
    THEN [p EXCEPT !.q = o.x.q, !.list = <<[e EXCEPT !.x = o.x]>> \o Tail(p.list)]
  ELSE IF o.ret = "true"
    THEN handle_rx_queue(Deleted([p EXCEPT !.list = Tail(p.list)], e.n, o.x, "retry"))
  ELSE Deleted([p EXCEPT !.list = Tail(p.list)], e.n, o.x, o.ret)

\* Virtio_port::handle_rx_queue.
handle_rx_queue(p) ==
  IF p.list = <<>> \/ p.aborted THEN p
  ELSE RxQueueStep(p, Head(p.list),
                   PendingLoop([Head(p.list).x EXCEPT !.q = p.q], Head(p.list).header))

\* Virtio_port::rx_work_pending.
rx_work_pending(p) == p.q.ready /\ p.list # <<>> /\ desc_avail(p.q)

\* A destructor that leaves the pending transfers alone: a fault the
\* teardown property has to detect.
drop_none(p) == p

\* Virtio_port::~Virtio_port: every pending transfer is erased and deleted.
RECURSIVE drop_all(_)
drop_all(p) ==
  IF p.list = <<>> \/ p.aborted THEN p
  ELSE drop_all(Deleted([p EXCEPT !.list = Tail(p.list)],
                        Head(p.list).n, [Head(p.list).x EXCEPT !.q = p.q], "teardown"))

InitPending ==
  /\ ports = [idx \in Slots |-> NoPort]
  /\ max_used = 0
  /\ monitor = NoPort
  /\ mac_table = EmptyMacTable
  /\ last = Idle
  /\ tin = NoTransfer
  /\ tout = NoTransfer
  /\ pend \in {[op |-> "port", alive |-> TRUE, aborted |-> FALSE, asserts |-> a,
                q |-> q, list |-> <<>>, sent |-> 0, ended |-> <<>>, refills |-> 0,
                refs |-> [n \in 1..MaxFrames |-> 0], returned |-> {},
                srcalive |-> TRUE, did |-> "created"] :
               a \in BOOLEAN, q \in PendingRings}
  /\ devs = NotModelled
  /\ irq = NotModelled

PendingRuns == pend.alive /\ ~pend.aborted

\* The switch hands the next frame of the source port to the port.
\* handle_tx_queue holds one reference to the request while it runs and
\* drops it when it is left, by return or by exception.
HandleRequest(chain) ==
  /\ PendingRuns
  /\ pend.srcalive
  /\ pend.sent < MaxFrames
  /\ pend' = LET n == pend.sent + 1
                 r == handle_request_pending([pend EXCEPT !.refs[n] = 1], n,
                                             Virtio_net_request(chain))
             IN [(IF r.aborted THEN r ELSE Unref(r, n))
                   EXCEPT !.sent = n, !.did = "request"]
  /\ UNCHANGED <<ports, max_used, monitor, mac_table, last, tin, tout, devs, irq>>

\* The client of the port makes receive chains available.
ClientRefill(sizes) ==
  /\ PendingRuns
  /\ pend.refills < MaxRefills
  /\ pend' = [pend EXCEPT !.q = Refill(pend.q, sizes), !.refills = pend.refills + 1,
                          !.did = "refill"]
  /\ UNCHANGED <<ports, max_used, monitor, mac_table, last, tin, tout, devs, irq>>

\* A drain of the port: while (rx_work_pending()) handle_rx_queue().  One
\* handle_rx_queue call ends with the list empty or the ring used up.
HandleRxQueue ==
  /\ PendingRuns
  /\ rx_work_pending(pend)
  /\ pend' = [handle_rx_queue(pend) EXCEPT !.did = "rx"]
  /\ UNCHANGED <<ports, max_used, monitor, mac_table, last, tin, tout, devs, irq>>

\* Virtio_net_transfer::expired for the oldest pending transfer, whose
\* deadline is the first to pass: removed from the list and deleted.
PendingExpired ==
  /\ ~pend.aborted
  /\ pend.list # <<>>
  /\ pend' = [Deleted([pend EXCEPT !.list = Tail(pend.list)], Head(pend.list).n,
                      [Head(pend.list).x EXCEPT !.q = pend.q], "expired")
                EXCEPT !.did = "expired"]
  /\ UNCHANGED <<ports, max_used, monitor, mac_table, last, tin, tout, devs, irq>>

\* check_ports deletes the port.
DestroyPort ==
  /\ PendingRuns
  /\ pend' = [drop_all(pend) EXCEPT !.alive = drop_all(pend).aborted, !.did = "teardown"]
  /\ UNCHANGED <<ports, max_used, monitor, mac_table, last, tin, tout, devs, irq>>

\* check_ports deletes the source port of the frames.  Its destructor
\* empties its own pending list; the transfers that wait on this port for
\* frames of the source stay where they are.
DestroySource ==
  /\ PendingRuns
  /\ pend.srcalive
  /\ pend' = [pend EXCEPT !.srcalive = FALSE, !.did = "source gone"]
  /\ UNCHANGED <<ports, max_used, monitor, mac_table, last, tin, tout, devs, irq>>

\* A transfer of a deleted source port is retried, expired or deleted: it
\* reads the memory table of the freed port and finishes on its queue.  The
\* access may go through as if the port were there (the other actions) or
\* end the process (this one).
UseAfterFree ==
  /\ ~pend.aborted
  /\ ~pend.srcalive
  /\ pend.list # <<>>
  /\ pend' = [pend EXCEPT !.aborted = TRUE, !.did = "fault"]
  /\ UNCHANGED <<ports, max_used, monitor, mac_table, last, tin, tout, devs, irq>>

NextPending ==
  \/ \E chain \in PendingChains(pend.sent + 1) : HandleRequest(chain)
  \/ \E sizes \in RefillShapes : ClientRefill(sizes)
  \/ HandleRxQueue
  \/ PendingExpired
  \/ DestroyPort
  \/ DestroySource
  \/ UseAfterFree

SpecPending == InitPending /\ [][NextPending]_vars

-----------------------------------------------------------------------------
(* Properties of transfer(), checked under SpecTransfer *)

Delivered == tout.op = "done" /\ tout.r.result = "Delivered"

\* The entries of the finish call transfer() made.
FrameEntries == tout.r.q.used[Len(tout.r.q.used)]

\* The header the receiver finds at the start of the first chain.
ReceivedHeader == Take(Flatten(tout.r.q.mem[FrameEntries[1].head]), HdrSize)

\* C4 (frame atomicity, delivery): when transfer() returns Delivered it has
\* made exactly one finish call on the destination ring, the call covers
\* every chain the frame pulled, each once, and the num_buffers field of the
\* header in the first chain is the number of those chains.
C4_DeliveryAtomic ==
  Delivered =>
    /\ Len(tout.r.q.used) = Len(tin.q.used) + 1
    /\ SubSeq(tout.r.q.used, 1, Len(tin.q.used)) = tin.q.used
    /\ [i \in 1..Len(FrameEntries) |-> FrameEntries[i].head]
         = [i \in 1..Len(FrameEntries) |-> tin.q.cur + i]
    /\ tout.r.q.cur = tin.q.cur + Len(FrameEntries)
    /\ HdrField(ReceivedHeader, "num_buffers") = Len(FrameEntries)

\* A frame delivered in three chains.
C4_Witness == Delivered /\ Len(FrameEntries) = 3

\* C5 (frame atomicity, abort): when the destination ring runs out after the
\* frame took k >= 0 chains, transfer() returns Dropped, has finished none of
\* them and has put the available cursor back where it was.
C5_AbortAtomic ==
  (tout.op = "done" /\ tout.variant = "inline" /\ tout.r.depleted) =>
    /\ tout.r.result = "Dropped"
    /\ tout.r.q.used = tin.q.used
    /\ tout.r.q.cur = tin.q.cur
    /\ tout.r.q.chains = tin.q.chains

\* The ring ran out after the frame had filled two chains.
C5_Witness ==
  /\ tout.op = "done" /\ tout.variant = "inline"
  /\ tout.r.depleted /\ tout.r.result = "Dropped"
  /\ tout.r.nconsumed = 2 /\ tin.q.cur = 1 /\ tout.r.q.cur = 1

\* C6 (payload integrity): for every layout of the source chain and of the
\* destination chains, the bytes the receiver reads from a delivered frame
\* are the header followed by the mangled payload, without a gap.
C6_PayloadIntegrity ==
  Delivered =>
    ReceiverBytes(tout.r.q, FrameEntries)
      = Take(ReceivedHeader, HdrSize) \o MangleBytes(tin.frame, tin.mangle)

\* C7 (header pass-through): the receiver's header has the flags, gso_type,
\* hdr_len, gso_size, csum_start and csum_offset of the source header,
\* num_buffers is overwritten with the number of chains, and the header is
\* written on the first chain only.
C7_HeaderPassThrough ==
  Delivered =>
    /\ \A f \in {"flags", "gso_type", "hdr_len", "gso_size", "csum_start", "csum_offset"} :
         HdrField(ReceivedHeader, f) = HdrField(tin.header, f)
    /\ HdrField(ReceivedHeader, "num_buffers") = Len(FrameEntries)
    /\ tout.r.hdr_chains = <<FrameEntries[1].head>>

\* A header with every field set, delivered with a frame that took two
\* chains and a tag inserted.
C7_Witness ==
  /\ Delivered /\ Len(FrameEntries) = 2
  /\ HdrField(tin.header, "flags") = 1 /\ HdrField(tin.header, "num_buffers") # 2
  /\ tin.mangle = mangle_add(10)

-----------------------------------------------------------------------------
(* Properties of the MAC table, checked under SpecMac *)

\* The backing slots in use.
Occupied == {i \in DOMAIN mac_table.entries : mac_table.entries[i].port # NoId}

\* C13 (MAC-table capacity): after any sequence of learn and flush calls the
\* lookup index holds at most TableSize addresses and at most TableSize
\* backing slots are occupied.
C13_Capacity ==
  /\ Cardinality(mac_table.map) <= TableSize
  /\ Cardinality(Occupied) <= TableSize

\* A full table after a flush, with the round-robin index back at slot 0.
C13_Witness ==
  /\ last.op = "mac" /\ last.flushed
  /\ Cardinality(mac_table.map) = TableSize /\ mac_table.rr_index = 0

\* C14 (round-robin eviction): while distinct addresses are learned into an
\* empty table, with no address learned twice and no flush, after n of them
\* the lookup of the first n - TableSize finds nothing and the lookup of
\* each of the last TableSize finds the port it was learned on.
C14_RoundRobinEviction ==
  (last.op = "mac" /\ last.pure) =>
    \A i \in 1..Len(last.learned) :
      lookup(mac_table, last.learned[i].mac)
        = IF i <= Len(last.learned) - TableSize THEN NoId ELSE last.learned[i].port

\* Twice as many addresses learned as the table holds.
C14_Witness ==
  last.op = "mac" /\ last.pure /\ Len(last.learned) = 2 * TableSize

\* C15 (MAC-table uniqueness): after any sequence of learn and flush calls
\* the lookup index has one slot for each address it holds and no two
\* occupied slots hold the same address.
C15_Uniqueness ==
  /\ \A m1, m2 \in mac_table.map : m1.addr = m2.addr => m1 = m2
  /\ \A i, j \in Occupied :
       mac_table.entries[i].addr = mac_table.entries[j].addr => i = j

\* An address was learned a second time, on another port, into a full
\* table.
C15_Witness ==
  /\ last.op = "mac" /\ last.relearned /\ ~last.flushed
  /\ Cardinality(Occupied) = TableSize
  /\ \E i, j \in Occupied : mac_table.entries[i].port # mac_table.entries[j].port

\* The addresses the lookup index of a table holds.
Known(tbl) == {m.addr : m \in tbl.map}

\* C32 (re-learning): a learn(mac, port) step for an address the table
\* holds leaves the round-robin index and the lookup index as they are and
\* changes nothing in the backing array but the port of that address's
\* slot.
C32_Relearn ==
  [][\A src \in StationMacs, port \in Slots :
       (src \in Known(mac_table) /\ mac_table' = learn(mac_table, src, port)) =>
         /\ mac_table'.rr_index = mac_table.rr_index
         /\ mac_table'.map = mac_table.map
         /\ \A m \in mac_table.map :
              mac_table'.entries[m.entry] =
                IF m.addr = src THEN [port |-> port, addr |-> src]
                ELSE mac_table.entries[m.entry]
         /\ \A i \in DOMAIN mac_table.entries :
              i \notin Occupied => mac_table'.entries[i] = mac_table.entries[i]]_vars

\* One address was learned and learned again on another port: one slot is
\* in use and the round-robin index stands behind it.
C32_Witness ==
  /\ last.op = "mac" /\ last.relearned /\ ~last.flushed
  /\ Cardinality(mac_table.map) = 1
  /\ mac_table.rr_index = 1
  /\ mac_table.entries[0].port # 0

\* C33 (eviction only at capacity): a step that adds an address to the
\* table and removes another one from it starts from a table that holds
\* TableSize addresses.
C33_EvictionOnlyAtCapacity ==
  [][(/\ Known(mac_table') \ Known(mac_table) # {}
      /\ Known(mac_table) \ Known(mac_table') # {})
       => Cardinality(mac_table.map) = TableSize]_vars

\* C34 (flush): a flush(port) step leaves no address that looks up to the
\* port, empties every slot that referenced it and removes it from the
\* lookup index, and leaves the other slots, their index entries and the
\* round-robin index unchanged.
C34_FlushExact ==
  [][\A port \in Slots :
       (mac_table' = flush(mac_table, port) /\ Known(mac_table') \subseteq Known(mac_table)) =>
         /\ \A dst \in StationMacs : lookup(mac_table', dst) # port
         /\ \A i \in DOMAIN mac_table.entries :
              mac_table'.entries[i] =
                IF mac_table.entries[i].port = port THEN NoEntry
                ELSE mac_table.entries[i]
         /\ mac_table'.map = {m \in mac_table.map : mac_table.entries[m.entry].port # port}
         /\ mac_table'.rr_index = mac_table.rr_index]_vars

\* After a flush an emptied slot lies below a slot still in use.
C34_Witness ==
  /\ last.op = "mac" /\ last.flushed /\ ~last.relearned
  /\ \E i \in Occupied : \E j \in DOMAIN mac_table.entries : j < i /\ j \notin Occupied

-----------------------------------------------------------------------------
(* Properties of the switch, checked under Spec *)

Tx == last.op = "tx"

\* The port the frame was pulled from.
SrcPort == ports[last.port]

\* The frame the client put into the chain: everything behind the header.
TxFrame == Drop(Flatten([i \in 1..Len(last.chain) |-> last.chain[i].data]), HdrSize)

\* The handle_request calls made on switch ports, and on the monitor port.
Handed == {last.r.handed[i] : i \in 1..Len(last.r.handed)}

Mirrored == {last.r.mirrored[i] : i \in 1..Len(last.r.mirrored)}

\* The ports registered in the port array.
Registered == {ports[idx] : idx \in {i \in Slots : ports[i] # NoPort}}

\* The VLAN ids a port is a member of.
Accepts(port, vid) == vid = port.vlan_id \/ vid \in port.vlan_ids

\* An 802.1Q tag behind the MAC addresses of a frame, and its VID.
Tagged(frame) == Len(frame) >= 14 /\ frame[13] = 129 /\ frame[14] = 0

FrameVid(frame) == (frame[15] * 256 + frame[16]) % 4096

\* The frame a target reads from its receive ring after a delivery.
ReceivedFrame(h) == Drop(ReceiverBytes(h.q, h.q.used[Len(h.q.used)]), HdrSize)

\* The effective VLAN id of the pulled frame as the request view reports
\* it: the VID of the tag when has_vlan, else the VLAN id of the source port.
EffectiveVlan ==
  LET request == Virtio_net_request(last.chain)
  IN IF has_vlan(request) THEN vlan_id(request) ELSE SrcPort.vlan_id

C2_NoSelfLoop ==
  Tx => \A h \in Handed \cup Mirrored : h.port # last.port

\* The lookup of the destination resolved to the source port, with other
\* ports registered.
C2_Witness ==
  /\ Tx /\ last.r.accepted /\ last.r.target = last.port
  /\ Cardinality(Registered) >= 2

\* C3 (flood completeness): a frame that is broadcast or misses the MAC table
\* is handed to every registered port other than the source that accepts
\* its VLAN id, whatever add_port and check_ports calls came before.
C3_FloodComplete ==
  (Tx /\ last.r.accepted /\ last.r.flood /\ ~last.r.thrown) =>
    \A d \in Registered :
      (d.id # last.port /\ match_vlan(d, last.r.vlan)) => \E h \in Handed : h.port = d.id

\* C8 (ingress VLAN policy): a tagged frame pulled from an access port, and
\* a frame pulled from a trunk port that is untagged or tagged with a VID
\* outside the port's set, is handed to no port, is not mirrored, and its
\* head is finished with zero bytes.
C8_IngressPolicy ==
  (Tx /\ (\/ is_access(SrcPort) /\ Tagged(TxFrame)
          \/ is_trunk(SrcPort) /\ (~Tagged(TxFrame) \/ FrameVid(TxFrame) \notin SrcPort.vlan_ids)))
    => /\ ~last.r.accepted
       /\ Handed = {} /\ Mirrored = {}
       /\ last.r.finished

\* C9 (native-port confinement): a frame a native port transmits, tagged or
\* not, is handed to native switch ports only.
C9_NativeConfined ==
  (Tx /\ is_native(SrcPort)) =>
    \A h \in Handed : \A d \in Registered : d.id = h.port => is_native(d)

\* C10 (access ports see no tag): a frame delivered into the receive ring of
\* an access port carries no 802.1Q tag at offset 12, whatever the mode of
\* the source port and whatever frame it sent.
C10_AccessUntagged ==
  Tx => \A h \in Handed : \A d \in Registered :
          (d.id = h.port /\ is_access(d) /\ h.result = "Delivered")
            => ~Tagged(ReceivedFrame(h))

\* The port object a handle_request call was made on.
TargetOf(h) == IF h.port = MonitorId THEN monitor ELSE ports[h.port]

\* C11 (egress mangle selection): every handle_request call, on a switch
\* port or on the monitor port, chooses Insert(VLAN id of the source) exactly
\* when the target is a trunk port (the monitor is one) and the source an
\* access port, Remove exactly when the target is no trunk port and the
\* source is one, and no mangle in every other combination.
C11_MangleSelection ==
  Tx => \A h \in Handed \cup Mirrored :
          h.mangle = IF is_trunk(TargetOf(h)) /\ is_access(SrcPort)
                       THEN mangle_add(SrcPort.vlan_id)
                     ELSE IF ~is_trunk(TargetOf(h)) /\ is_trunk(SrcPort)
                       THEN mangle_remove
                     ELSE mangle_none

\* A frame of an access port delivered to a trunk port with the tag
\* inserted, and mirrored.
C11_Witness ==
  /\ Tx /\ is_access(SrcPort) /\ Mirrored # {}
  /\ \E h \in Handed : /\ is_trunk(TargetOf(h)) /\ h.result = "Delivered"
                        /\ h.mangle = mangle_add(SrcPort.vlan_id)
                        /\ Tagged(ReceivedFrame(h))

\* The ports the MAC table holds for an address.
LearnedOn(mac) ==
  {mac_table.entries[m.entry].port : m \in {x \in mac_table.map : x.addr = mac}}

\* The destination address in the bytes of the pulled frame.
FrameDst == Take(TxFrame, Addr_length)

\* C12 (unicast after learning): when the MAC table holds the destination
\* address of an accepted frame on a port B other than the source (B sent a
\* frame with that source address and the entry was neither evicted nor
\* flushed since) and B accepts the frame's VLAN, handle_request is called
\* on B and on no other switch port, and the frame is not flooded.
C12_UnicastAfterLearning ==
  Tx => \A b \in LearnedOn(FrameDst) :
          (last.r.accepted /\ b # last.port /\ Accepts(ports[b], EffectiveVlan))
            => /\ ~last.r.flood
               /\ [i \in 1..Len(last.r.handed) |-> last.r.handed[i].port] = <<b>>

\* A frame delivered to the learned port and mirrored while a third port of
\* the same VLAN is registered and gets nothing.
C12_Witness ==
  /\ Tx /\ last.r.accepted /\ ~last.r.flood /\ Mirrored # {}
  /\ \E h \in Handed : h.result = "Delivered" /\ h.port \in LearnedOn(FrameDst)
  /\ \E d \in Registered :
       /\ d.id # last.port /\ Accepts(d, EffectiveVlan)
       /\ \A h \in Handed : h.port # d.id

\* C16 (MAC-table referential integrity): whatever ports were added, drained
\* and removed by check_ports, the port of every occupied MAC-table entry is
\* a port registered in the port array, so no lookup yields a deleted port.
C16_ReferentialIntegrity ==
  \A i \in Occupied : \E d \in Registered : d.id = mac_table.entries[i].port

\* check_ports removed a port whose address sat in slot 0 while the address
\* in slot 1 belongs to a port that is still registered.
C16_Witness ==
  /\ last = Idle
  /\ Occupied = {1}
  /\ Cardinality(Registered) < max_used

\* The descriptor heads of a transmit ring, each finished with zero bytes.
AllDropped(txq) == [i \in 1..Len(txq) |-> [head |-> i, len |-> 0]]

\* C18 (a monitor port never sources traffic): a kick of the monitor port
\* finishes every descriptor head of its transmit ring with zero bytes,
\* hands no frame to any port and leaves the MAC table as it was.
C18_MonitorNeverSources ==
  [][last'.op = "monitor" =>
       /\ ~last'.r.thrown
       /\ last'.r.used = AllDropped(last'.txq)
       /\ mac_table' = mac_table]_vars

\* The switch forwards the frame of the call: it was accepted and is a
\* broadcast, has no table entry, or has one on another port that accepts
\* the frame's VLAN.
Forwarded ==
  /\ Tx
  /\ last.r.accepted
  /\ \/ last.r.target = NoId
     \/ /\ last.r.target # last.port
        /\ Accepts(PortOf(ports, last.r.target), last.r.vlan)

\* C19 (mirroring): with a monitor port attached and no filter rejection,
\* every frame the switch forwards is handed to the monitor port exactly
\* once.
C19_Mirroring ==
  (Forwarded /\ monitor # NoPort) =>
    /\ Len(last.r.mirrored) = 1
    /\ last.r.mirrored[1].port = monitor.id

C36_UnicastHit ==
  (Tx /\ last.r.accepted /\ last.r.target # NoId) =>
    /\ ~last.r.flood
    /\ Len(last.r.handed) <= 1
    /\ \A h \in Handed : h.port = last.r.target
    /\ (\/ last.r.target = last.port
        \/ ~Accepts(PortOf(ports, last.r.target), EffectiveVlan))
         => (Handed = {} /\ Mirrored = {})

\* A unicast hit on a port outside the frame's VLAN while a monitor port is
\* attached.
C36_Witness ==
  /\ Tx /\ last.r.accepted /\ last.r.target # NoId
  /\ last.r.target # last.port
  /\ ~Accepts(PortOf(ports, last.r.target), EffectiveVlan)
  /\ monitor # NoPort

\* C38 (rejected frames are not learned): a handle_tx_queue call whose
\* request get_tx_request rejects, for the VLAN policy of the port or for a
\* chain that cannot be parsed, leaves the MAC table as it was.
C38_RejectedNotLearned ==
  [][(last'.op = "tx" /\ ~last'.r.accepted) => mac_table' = mac_table]_vars

\* A parsable frame rejected for the VLAN policy of its port, with a source
\* address the non-empty table does not know.
C38_Witness ==
  /\ Tx /\ ~last.r.accepted
  /\ Virtio_net_request(last.chain).valid
  /\ ~Virtio_net_request(last.chain).thrown
  /\ mac_table.map # {}
  /\ src_mac(Virtio_net_request(last.chain)) \notin Known(mac_table)

\* The bound of the port array: _max_used does not exceed the array and
\* every registered port sits below it.
PortArrayBound ==
  /\ max_used <= MaxPorts
  /\ \A idx \in Slots : ports[idx] # NoPort => idx < max_used

\* C37 (port-array bound): after any sequence of add_port and check_ports
\* every registered port sits at an index below _max_used, _max_used is at
\* most the array size, and the flood loop bounded by _max_used reaches every
\* registered port: each one other than the source that accepts the VLAN
\* id of a flooded frame is handed the frame.
C37_BoundedLoopsComplete ==
  /\ PortArrayBound
  /\ (Tx /\ last.r.accepted /\ last.r.flood /\ ~last.r.thrown) =>
       \A idx \in 0..(max_used - 1) :
         (/\ ports[idx] # NoPort
          /\ ports[idx].id # last.port
          /\ match_vlan(ports[idx], last.r.vlan))
           => \E i \in 1..Len(last.r.handed) : last.r.handed[i].port = ports[idx].id

-----------------------------------------------------------------------------
(* Virtio_switch::handle_port_irq (switch.cc) with the transfer engine of  *)
(* transfer.h, run step by step against the clients.  That engine never    *)
(* leaves a transfer pending, so rx_work_pending() is false and the        *)
(* handle_rx_queue loop is empty.  devs maps a port id to its device:      *)
(*   tx           the transmit chains made available and not yet pulled,   *)
(*   rx           the receive ring,                                        *)
(*   tx_notify, rx_notify   the client is asked to kick the switch,        *)
(*   do_kick, kick_pending  _do_kick and _kick_pending of Virtio_net,      *)
(*   error        device_error() was called,                               *)
(*   irq_pending  the client has kicked and handle_irq has not run yet,    *)
(*   kicks, got   client kicks raised and frames finished on rx in the     *)
(*                current pass of the do loop.                             *)
(* irq is the handler: pc its position, port the port it runs for, exit    *)
(* how the last run ended, final the work-pending check it ended with.     *)

MaxSubmits == 3    \* transmit chains the clients submit

\* The receive rings of the destinations: three chains of 64 bytes; a chain
\* whose second descriptor is malformed; a first buffer too small for the
\* header; chains of 16 bytes, two of which take a frame; a chain of 16
\* bytes before a chain whose head descriptor is malformed.
IrqRings ==
  {RxQueue(TRUE, sh, 0) :
     sh \in {<<<<64>>, <<64>>, <<64>>>>, <<<<20, 0 - 1>>, <<64>>>>, <<<<8, 64>>, <<64>>>>,
             <<<<16>>, <<16>>, <<64>>>>, <<<<16>>, <<0 - 1>>, <<64>>>>}}

\* The transmit chains: a broadcast frame in one descriptor, and the same
\* with a malformed descriptor behind its first 14 bytes.
IrqChains ==
  {TxChain1,
   Layout(TxHeader \o Take(EthFrame(Addr_broadcast, MacA, <<>>, <<1, 2>>), 14), <<>>)
     \o <<BadDesc>>}

\* Virtio_net::notify_queue: kick the client now or remember the kick.
notify_queue(dev) ==
  IF dev.do_kick THEN [dev EXCEPT !.kicks = dev.kicks + 1]
  ELSE [dev EXCEPT !.kick_pending = TRUE]

kick_disable_and_remember(dev) == [dev EXCEPT !.do_kick = FALSE, !.kick_pending = FALSE]

kick_emit_and_enable(dev) ==
  [dev EXCEPT !.do_kick = TRUE, !.kick_pending = FALSE,
              !.kicks = IF dev.kick_pending THEN dev.kicks + 1 ELSE dev.kicks]

all_kick_emit_enable(ds, ps) ==
  [id \in DOMAIN ds |->
     IF \E idx \in Slots : ps[idx] # NoPort /\ ps[idx].id = id
       THEN kick_emit_and_enable(ds[id]) ELSE ds[id]]

all_kick_disable_remember(ds, ps) ==
  [id \in DOMAIN ds |->
     IF \E idx \in Slots : ps[idx] # NoPort /\ ps[idx].id = id
       THEN kick_disable_and_remember(ds[id]) ELSE ds[id]]

\* Virtio_net::device_error: the device is failed and its queues disabled.
device_error(dev) == [dev EXCEPT !.error = TRUE, !.rx.ready = FALSE]

\* Virtio_port::tx_work_pending.
tx_work_pending(dev) == ~dev.error /\ dev.tx # <<>>

\* The device of a target after handle_request left its ring as q: a finish
\* on the ring calls notify_queue.
Received(dev, q) ==
  IF Len(q.used) > Len(dev.rx.used)
    THEN [notify_queue(dev) EXCEPT !.rx = q, !.got = dev.got + 1]
    ELSE [dev EXCEPT !.rx = q]

\* A destination that is never flagged: a fault the destination descriptor
\* property has to detect.
HandedUnflagged(dev, h) == Received(dev, h.q)

\* transfer() calls device_error on the destination before it returns
\* Exception.
HandedTo(dev, h) ==
  IF h.result = "Exception" THEN device_error(Received(dev, h.q)) ELSE Received(dev, h.q)

RECURSIVE HandedAll(_, _)
HandedAll(ds, hs) ==
  IF hs = <<>> THEN ds
  ELSE HandedAll([ds EXCEPT ![Head(hs).port] = HandedTo(ds[Head(hs).port], Head(hs))],
                 Tail(hs))

\* The devices after the handle_tx_queue call with outcome r for port id:
\* the chain is pulled, and the destructor of the request finishes it,
\* which calls notify_queue on the source; then the targets.
AfterTx(ds, id, r) ==
  HandedAll([ds EXCEPT ![id] = IF r.finished
                                 THEN [notify_queue(ds[id]) EXCEPT !.tx = Tail(ds[id].tx)]
                                 ELSE [ds[id] EXCEPT !.tx = Tail(ds[id].tx)]],
            r.handed \o r.mirrored)

\* The exception that left handle_tx_queue.
Thrown(r) ==
  IF ~r.thrown THEN "none"
  ELSE IF r.mirrored # <<>> THEN r.mirrored[1].result
  ELSE IF r.handed # <<>> THEN r.handed[Len(r.handed)].result
  ELSE "Bad_descriptor"

\* Lines 160-164: the head of the do loop.
PassHead(ds, ps, id) ==
  all_kick_disable_remember(
    [i \in DOMAIN ds |->
       [ds[i] EXCEPT !.kicks = 0, !.got = 0,
                     !.tx_notify = IF i = id THEN FALSE ELSE ds[i].tx_notify,
                     !.rx_notify = IF i = id THEN FALSE ELSE ds[i].rx_notify]], ps)

NewDev(rx, dk) ==
  [tx |-> <<>>, rx |-> rx, tx_notify |-> TRUE, rx_notify |-> TRUE,
   do_kick |-> dk, kick_pending |-> FALSE, error |-> FALSE,
   irq_pending |-> FALSE, kicks |-> 0, got |-> 0]

\* A switch with every slot taken by a native port and a monitor port.  The
\* start value of _do_kick is set in virtio_net.h; the monitor starts with
\* either value.
InitIrq ==
  /\ ports = [idx \in Slots |-> CreatePort(idx, Addr_unknown, [mode |-> "native"])]
  /\ max_used = MaxPorts
  /\ monitor = CreatePort(MonitorId, Addr_unknown, [mode |-> "monitor"])
  /\ mac_table = EmptyMacTable
  /\ last = Idle
  /\ tin = NoTransfer
  /\ tout = NoTransfer
  /\ pend = NotModelled
  /\ \E q \in IrqRings, dk \in BOOLEAN :
       devs = [id \in 0..MaxPorts |->
                 IF id = MonitorId THEN NewDev(RxQueue(TRUE, <<<<64>>, <<64>>, <<64>>>>, 0), dk)
                 ELSE IF id = 1 THEN NewDev(q, TRUE)
                 ELSE NewDev(RxQueue(TRUE, <<<<64>>, <<64>>, <<64>>>>, 0), TRUE)]
  /\ irq = [pc |-> "idle", port |-> NoId, exit |-> "none", final |-> FALSE, frames |-> 0]

\* The client of port id makes a transmit chain available and kicks the
\* switch when the ring asks for it.  irq.frames counts the submissions.
ClientSubmit(id, chain) ==
  /\ irq.frames < MaxSubmits
  /\ ~devs[id].error
  /\ devs' = [devs EXCEPT ![id].tx = Append(devs[id].tx, chain),
                          ![id].irq_pending = devs[id].irq_pending \/ devs[id].tx_notify]
  /\ irq' = [irq EXCEPT !.frames = irq.frames + 1]
  /\ UNCHANGED <<ports, max_used, monitor, mac_table, last, tin, tout, pend>>

\* Switch_port::Kick_irq::handle_irq: handle_port_irq(port) up to the first
\* tx_work_pending() of the drain loop.
IrqEnter(id) ==
  /\ irq.pc = "idle"
  /\ devs[id].irq_pending
  /\ devs' = PassHead([devs EXCEPT ![id].irq_pending = FALSE], ports, id)
  /\ irq' = [irq EXCEPT !.pc = "tx", !.port = id, !.exit = "none", !.final = FALSE]
  /\ UNCHANGED <<ports, max_used, monitor, mac_table, last, tin, tout, pend>>

\* The handler leaves handle_port_irq.
Leave(how) == [irq EXCEPT !.pc = "idle", !.exit = how]

\* Lines 166-181 with outcome r of handle_tx_queue: the next turn of the
\* while loop, the catch clause for Bad_descriptor, or the Runtime_error
\* that no clause of handle_port_irq catches.
IrqTxDone(r) ==
  /\ mac_table' = r.mac_table
  /\ IF Thrown(r) = "none"
       THEN devs' = AfterTx(devs, irq.port, r) /\ irq' = irq
     ELSE IF Thrown(r) = "Bad_descriptor"
       THEN /\ devs' = all_kick_emit_enable(
                         [AfterTx(devs, irq.port, r) EXCEPT
                            ![irq.port] = device_error(AfterTx(devs, irq.port, r)[irq.port])],
                         ports)
            /\ irq' = Leave("device_error")
     ELSE devs' = AfterTx(devs, irq.port, r) /\ irq' = Leave(Thrown(r))

\* One turn of while (port->tx_work_pending()) handle_tx_queue(port), or
\* the end of the loop.
IrqTx ==
  /\ irq.pc = "tx"
  /\ IF tx_work_pending(devs[irq.port])
       THEN IrqTxDone(handle_tx_queue(ports, max_used, monitor, mac_table,
                                      ports[irq.port], Head(devs[irq.port].tx),
                                      [id \in 0..MaxPorts |-> devs[id].rx], FALSE))
       ELSE /\ irq' = [irq EXCEPT !.pc = "emit"]
            /\ UNCHANGED <<devs, mac_table>>
  /\ UNCHANGED <<ports, max_used, monitor, last, tin, tout, pend>>

\* Lines 186-196: all_kick_emit_enable, the device_needs_reset return, the
\* notifications of the port's rings enabled again.
IrqEmit ==
  /\ irq.pc = "emit"
  /\ IF devs[irq.port].error
       THEN /\ devs' = all_kick_emit_enable(devs, ports)
            /\ irq' = Leave("needs_reset")
       ELSE /\ devs' = [all_kick_emit_enable(devs, ports) EXCEPT
                          ![irq.port].tx_notify = TRUE, ![irq.port].rx_notify = TRUE]
            /\ irq' = [irq EXCEPT !.pc = "check"]
  /\ UNCHANGED <<ports, max_used, monitor, mac_table, last, tin, tout, pend>>

\* Line 198: the loop condition, read after the barriers.
IrqCheck ==
  /\ irq.pc = "check"
  /\ IF tx_work_pending(devs[irq.port])
       THEN /\ devs' = PassHead(devs, ports, irq.port)
            /\ irq' = [irq EXCEPT !.pc = "tx"]
       ELSE /\ devs' = devs
            /\ irq' = [Leave("normal") EXCEPT !.final = tx_work_pending(devs[irq.port])]
  /\ UNCHANGED <<ports, max_used, monitor, mac_table, last, tin, tout, pend>>

NextIrq ==
  \/ \E id \in {0, 1}, chain \in IrqChains : ClientSubmit(id, chain)
  \/ \E id \in {0, 1} : IrqEnter(id)
  \/ IrqTx
  \/ IrqEmit
  \/ IrqCheck

SpecIrq == InitIrq /\ [][NextIrq]_vars

-----------------------------------------------------------------------------
(* Properties of handle_port_irq, checked under SpecIrq *)

\* The devices that stand for ports.
Devices == 0..MaxPorts

\* A pass of the do loop has ended: the handler is at the loop condition or
\* has left.
PassOver == irq.port # NoId /\ irq.pc \in {"check", "idle"}

\* C22 (batched notification): in a pass of handle_port_irq a port that
\* received frames, switch port or monitor port, gets at most one client
\* kick, and it has got one when the pass is over.
C22_BatchedKick ==
  \A id \in Devices :
    devs[id].got >= 1 =>
      /\ devs[id].kicks <= 1
      /\ PassOver => devs[id].kicks = 1

\* C23 (no lost wakeup): while no handler runs, a port with a transmit
\* chain not yet processed has a kick raised; and a handler that returned
\* without device error left the notifications of both rings of its port
\* enabled and found no work at its final check.
C23_NoLostWakeup ==
  /\ \A id \in Devices :
       irq.pc = "idle" /\ tx_work_pending(devs[id]) => devs[id].irq_pending
  /\ irq.pc = "idle" /\ irq.exit = "normal" =>
       /\ devs[irq.port].tx_notify
       /\ devs[irq.port].rx_notify
       /\ ~irq.final

\* The outcome of the handle_tx_queue call the handler is about to make.
TxOutcome ==
  handle_tx_queue(ports, max_used, monitor, mac_table, ports[irq.port],
                  Head(devs[irq.port].tx), [id \in Devices |-> devs[id].rx], FALSE)

\* The handler is about to call handle_tx_queue.
AtTx == irq.pc = "tx" /\ tx_work_pending(devs[irq.port])

\* The step is the handler's call of handle_tx_queue, not a submission of
\* a client.
TxStep == AtTx /\ irq'.frames = irq.frames

\* C24 (malformed source descriptor): when a transfer of the frame throws
\* Bad_descriptor from the source cursor, every receive ring the frame did
\* not flag in error has its available cursor and its used entries as
\* before the frame, the source port is flagged in device error and the
\* handler has left handle_port_irq through the catch clause with the
\* rest of the transmit ring unprocessed.
C24_SourceBadDescriptor ==
  [][TxStep /\ TxOutcome.accepted /\ Thrown(TxOutcome) = "Bad_descriptor" =>
       /\ \A id \in Devices :
            ~devs'[id].error =>
              /\ devs'[id].rx.cur = devs[id].rx.cur
              /\ devs'[id].rx.used = devs[id].rx.used
       /\ devs'[irq.port].error
       /\ irq'.pc = "idle"
       /\ irq'.exit = "device_error"
       /\ devs'[irq.port].tx = Tail(devs[irq.port].tx)]_vars

\* The handler caught Bad_descriptor with a chain left in the transmit
\* ring, and a destination with chains of 16 bytes has bytes of the frame
\* in its first two chains, which are available again and not finished.
C24_Witness ==
  /\ irq.exit = "device_error"
  /\ devs[irq.port].tx # <<>>
  /\ \E id \in Devices :
       /\ devs[id].rx.cur = 0
       /\ devs[id].rx.used = <<>>
       /\ \A c \in 1..2 : Len(devs[id].rx.chains[c]) = 1 /\ devs[id].rx.chains[c][1].size = 16
       /\ \A c \in 1..2 : devs[id].rx.mem[c][1][1] # Unwritten

\* The handle_request calls of the frame.
HandedNow == {(TxOutcome.handed \o TxOutcome.mirrored)[i] :
             i \in 1..Len(TxOutcome.handed \o TxOutcome.mirrored)}

\* Those that returned Exception.
Excepted == {h \in HandedNow : h.result = "Exception"}

\* C25 (malformed destination descriptor): when a transfer of the frame
\* returns Exception, that destination is flagged in error with the chains
\* it pulled neither finished nor rewound; every other switch port and the
\* monitor are still handed the frame; and unless another transfer of the
\* frame threw, the source port is not flagged and the handler goes on
\* with the next chain of its transmit ring.
C25_DestinationBadDescriptor ==
  [][TxStep /\ Excepted # {} =>
       /\ \A h \in Excepted :
            /\ devs'[h.port].error
            /\ devs'[h.port].rx.used = devs[h.port].rx.used
            /\ devs'[h.port].rx.cur = h.q.cur
            /\ h.q.cur > devs[h.port].rx.cur
       /\ Thrown(TxOutcome) = "none" =>
            /\ \A id \in Devices \ {irq.port} :
                 \E h \in HandedNow : h.port = id
            /\ ~devs'[irq.port].error
            /\ irq'.pc = "tx"
            /\ devs'[irq.port].tx = Tail(devs[irq.port].tx)]_vars

\* Port 1 is flagged with a chain pulled and nothing finished, the source
\* port 0 is not flagged, and port 2 has received two frames in this pass.
C25_Witness ==
  /\ irq.pc = "tx"
  /\ irq.port = 0
  /\ devs[1].error
  /\ devs[1].rx.cur = 1
  /\ devs[1].rx.used = <<>>
  /\ ~devs[0].error
  /\ devs[2].got = 2

\* C26 (error localisation): after a transfer failed because the first
\* destination buffer is too small for the header, no handler that has left
\* handle_port_irq leaves a switch port with kicks disabled, the source
\* port with notifications disabled or a chain of the transmit ring
\* unprocessed without a kick raised.
C26_ErrorLocalised ==
  irq.pc = "idle" /\ irq.exit = "Runtime_error" =>
    /\ \A id \in Devices \ {MonitorId} : devs[id].do_kick /\ ~devs[id].kick_pending
    /\ devs[irq.port].tx_notify
    /\ devs[irq.port].rx_notify
    /\ tx_work_pending(devs[irq.port]) => devs[irq.port].irq_pending

-----------------------------------------------------------------------------
(* Properties of the pending transfers, checked under SpecPending *)

\* The transfers that delivered their frame, in the order of their finish
\* calls on the receive ring.
IsDelivery(e) == e.how \in {"direct", "retry"}

Deliveries == SelectSeq(pend.ended, IsDelivery)

\* C21 (delivery order): the frames delivered to a destination port are
\* finished on its receive ring in the order in which they were pulled from
\* the source port.
C21_DeliveryOrder ==
  \A i, j \in 1..Len(Deliveries) : i < j => Deliveries[i].n < Deliveries[j].n

\* The frames whose transfer is on the pending list, and those whose
\* transfer object has been deleted.
ListNumbers == {pend.list[i].n : i \in 1..Len(pend.list)}

EndedNumbers == {pend.ended[i].n : i \in 1..Len(pend.ended)}

\* The header the receiver is to find in front of a frame delivered in k
\* chains: the source header with num_buffers = k.
DeliveredHeader(k) == Take(TxHeader, HdrSize - 2) \o <<k % 256, k \div 256>>

\* The finish call of the ended transfer e hands the receiver the whole
\* frame behind its header.
WholeFrame(e) ==
  ReceiverBytes(pend.q, e.entries) = DeliveredHeader(Len(e.entries)) \o PendingFrame(e.n)

\* C27 (pending retry): a transfer that found no receive head stays on the
\* pending list of the destination port until its object is deleted; a
\* drain of the port resumes the pending transfers until the list is empty
\* or the ring is used up; a transfer completed by a retry has delivered
\* its whole frame with one finish call and is off the list.
C27_PendingRetry ==
  ~pend.aborted =>
    /\ \A n \in 1..pend.sent : (n \in ListNumbers) # (n \in EndedNumbers)
    /\ \A i \in 1..Len(pend.ended) :
         pend.ended[i].how = "retry" =>
           /\ pend.ended[i].finished
           /\ WholeFrame(pend.ended[i])
           /\ \A j \in 1..Len(pend.ended) : pend.ended[j].n = pend.ended[i].n => j = i
    /\ (pend.did = "rx" /\ pend.list # <<>> /\ desc_avail(pend.q)) =>
         pend.ended[Len(pend.ended)].how \notin {"direct", "retry"}

\* A frame whose first part was copied before its transfer went on the
\* list and whose rest was copied by a retry after one refill.
C27_Witness ==
  /\ pend.refills = 1
  /\ \E i \in 1..Len(pend.ended) :
       pend.ended[i].how = "retry" /\ Len(pend.ended[i].entries) = 2

\* C28 (pending expiry): a pending transfer whose deadline expired is off
\* the pending list and no finish call was made for it on the receive ring
\* of the destination, however much of the frame had been copied.
C28_PendingExpiry ==
  \A i \in 1..Len(pend.ended) :
    pend.ended[i].how = "expired" =>
      /\ pend.ended[i].n \notin ListNumbers
      /\ ~pend.ended[i].finished

C40_SourceTeardown ==
  ~pend.srcalive => ListNumbers = {}

-----------------------------------------------------------------------------
(* Properties of the port set, checked under SpecPorts *)

\* The lowest empty slot of the port array.
LowestFree == CHOOSE idx \in Slots : ports[idx] = NoPort /\ \A j \in Slots : j < idx => ports[j] # NoPort

\* The port array has no empty slot.
ArrayFull == \A idx \in Slots : ports[idx] # NoPort

\* The address of port p is set and an attached switch port has it.
MacInUse(p) == ~is_unknown(p.mac) /\ \E q \in Registered : q.mac = p.mac

C31_SentinelNotLearned ==
  [][(/\ last'.op = "tx"
      /\ last'.r.accepted
      /\ src_mac(Virtio_net_request(last'.chain)) \in {Addr_broadcast, Addr_unknown})
       => mac_table' = mac_table]_vars


\* The ports attached to the switch: the port array and the monitor port.
Attached == Registered \cup (IF monitor # NoPort THEN {monitor} ELSE {})

\* C17 (port MAC uniqueness): no two attached ports, switch ports and the
\* monitor port alike, have the same explicitly set MAC address; a port
\* whose set address is in use by an attached port is not attached.
C17_PortMacUnique ==
  \A p, q \in Attached : (p.id # q.id /\ ~is_unknown(p.mac)) => p.mac # q.mac

-----------------------------------------------------------------------------
(* The VLAN mode of a port (port.h): the mode setters called in any order  *)
(* on the ports of the array slots.                                        *)

\* The VLAN ids the setters are called with; 10 and 42 share a Bloom bit.
TrunkIds == {10, 42}

InitVlan ==
  /\ ports = [idx \in Slots |-> NewPort(idx, Addr_unknown)]
  /\ max_used = MaxPorts
  /\ monitor = NoPort
  /\ mac_table = EmptyMacTable
  /\ last = Idle
  /\ tin = NoTransfer
  /\ tout = NoTransfer
  /\ pend = NotModelled
  /\ devs = NotModelled
  /\ irq = NotModelled

SetVlanAccess(idx, id) ==
  /\ ports' = [ports EXCEPT ![idx] = set_vlan_access(@, id)]
  /\ UNCHANGED <<max_used, monitor, mac_table, last, tin, tout, pend, devs, irq>>

SetVlanTrunk(idx, ids) ==
  /\ ports' = [ports EXCEPT ![idx] = set_vlan_trunk(@, ids)]
  /\ UNCHANGED <<max_used, monitor, mac_table, last, tin, tout, pend, devs, irq>>

SetMonitor(idx) ==
  /\ ports' = [ports EXCEPT ![idx] = set_monitor(@)]
  /\ UNCHANGED <<max_used, monitor, mac_table, last, tin, tout, pend, devs, irq>>

NextVlan ==
  \/ \E idx \in Slots, id \in TrunkIds : SetVlanAccess(idx, id)
  \/ \E idx \in Slots, ids \in SUBSET TrunkIds : SetVlanTrunk(idx, ids)
  \/ \E idx \in Slots : SetMonitor(idx)

SpecVlan == InitVlan /\ [][NextVlan]_vars

-----------------------------------------------------------------------------
(* Properties of the VLAN mode, checked under SpecVlan *)

\* The ids match_vlan is asked about: the ids of the setters, an id of
\* another Bloom bit and the two mode values.
ProbeIds == TrunkIds \cup {11, VLAN_ID_NATIVE, VLAN_ID_TRUNK}

=============================================================================
